---- MODULE Spec2Model ----
(***************************************************************************)
(* Zoom RTMS transcript service: the per-meeting signaling/media WebSocket *)
(* protocol (src/websocket-utils.js), the webhook, SSE and relay handlers  *)
(* of the server (src/README.md holds the server's code from line 239 on)  *)
(* and the transcript distribution layer (recency buffer, SSE fan-out,     *)
(* BroadcastChannel relay).                                                *)
(*                                                                         *)
(* Every service instance (a Deno isolate) runs the same code and has its  *)
(* own activeConnections, sseClients and recentTranscripts; the instances  *)
(* share the BroadcastChannel 'rtms-transcripts'.                          *)
(*                                                                         *)
(* A message handler is `async`: it awaits parseWsJson before it acts.     *)
(* For a text frame the await does not yield to the event loop and the     *)
(* handler is one step (ReceiveText).  For a Blob frame (binary data, the  *)
(* default binaryType) it does: the frame is handled in two steps, Receive *)
(* (the message event) and Handle (the code after the await), and other    *)
(* events may happen in between.                                           *)
(***************************************************************************)
EXTENDS Integers, Sequences, FiniteSets, TLC

(* ------------------------------ bounds --------------------------------- *)
\* protocol scenario: WebSocket objects created, frames the remote service
\* sends, message handlers between their await and their completion
ProtoSockets == 2
ProtoFrames == 2
ProtoPending == 1
\* relay scenario: WebSocket objects created, frames the remote service
\* sends, SSE clients that connect
RelaySockets == 2
RelayFrames == 2
RelayClients == 2
\* registry scenario: WebSocket objects created, frames the remote service
\* sends, message handlers awaiting parseWsJson at one time
RegSockets == 3
RegFrames == 1
RegPending == 1
\* start scenario: WebSocket objects created, elements of a server_urls list
StartSockets == 2
MaxList == 2
\* close scenario: WebSocket objects created, frames the remote service sends
CloseSockets == 3
CloseFrames == 1
\* frame scenario: WebSocket objects created, frames the remote service
\* sends, SSE clients that connect
FrameSockets == 2
FrameFrames == 4
FrameClients == 1
\* buffer scenario: WebSocket objects created, frames the remote service sends
\* (one handshake response and 52 transcripts fill the buffer and evict two)
BufSockets == 2
BufFrames == 53

(* ------------------------- program constants --------------------------- *)
\* recentTranscripts.length > 50 / slice(0, 50)
BufferCapacity == 50

(* ------------------------------ inputs --------------------------------- *)
Instances == {"A", "B"}
Meetings == {"m1", "m2"}
SigUrl == "wss://sig.example/abc"
\* the server_urls of the scenarios that start sessions with a usable URL
SigUrls == [shape |-> "string", text |-> SigUrl, allKind |-> "absent",
            all |-> "", items |-> <<>>, num |-> 0]
MediaUrls == {"wss://media.example/xyz"}
\* keep-alive timestamps the remote service may send
KeepAliveStamps == {-1, 0, 1234}

\* the identity an instance draws at start-up (crypto.randomUUID()): distinct
\* per instance, so the instance's name stands for it
INSTANCE_ID(i) == i

\* ZOOM_CLIENT_ID / ZOOM_CLIENT_SECRET of the environment
ZOOM_CLIENT_ID == "client-id"
ZOOM_CLIENT_SECRET == "client-secret"

(* ------------------------------ state ---------------------------------- *)
VARIABLES
    sockets,            \* every WebSocket object created so far (id = index)
    activeConnections,  \* per instance: meeting -> entry {signaling?, media?}
    pending,            \* message handlers awaiting parseWsJson
    lastHandled,        \* the handler invocation the last Handle step completed
    framesIn,           \* number of frames received so far
    clients,            \* every SSE client object created so far (id = index)
    sseClients,         \* per instance: the Set of clients, in insertion order
    recentTranscripts,  \* per instance: the recency buffer, newest first
    inbox,              \* per instance: relay envelopes the bus has still to deliver
    lastRelay,          \* the envelope the last bc.onmessage handled, and where
    published,          \* per instance: every transcript published, oldest first
    ready,              \* media sockets that handled a data-handshake success
    errorLog,           \* sockets whose onerror handler has logged an error
    resolved,           \* the last call of resolveWsUrl: its argument and result
    lastPollTimestamp,  \* per instance: Date.now() of the last poll (or of the start)
    polled,             \* the last poll: its query, the buffer it read, its response
    held,               \* the array a caller of getRecentTranscripts still holds
    signing,            \* sockets whose onopen handler awaits generateSignature
    secretSet,          \* whether the environment has ZOOM_CLIENT_SECRET
    alive,              \* whether the process is still running
    recentRequests,     \* per instance: request key -> time it was last processed
    lastTrigger         \* the last request of the trigger endpoint and its answer

vars == <<sockets, activeConnections, pending, lastHandled, framesIn,
          clients, sseClients, recentTranscripts, inbox, lastRelay, published,
          ready, errorLog, resolved, lastPollTimestamp, polled, held,
          signing, secretSet, alive, recentRequests, lastTrigger>>

protoVars == <<sockets, activeConnections, pending, lastHandled, framesIn>>
bcastVars == <<clients, sseClients, recentTranscripts, inbox, lastRelay, published>>

\* records of what happened; no handler reads them
historyVars == <<ready, errorLog, resolved>>

\* the polling endpoint's cursor, its last response, and the array object a
\* caller obtained from getRecentTranscripts
pollVars == <<lastPollTimestamp, polled, held>>

\* the open handlers between the open event and their send, the secret of
\* the environment, and the process itself
openVars == <<signing, secretSet, alive>>

\* the request deduplication of the trigger endpoint
triggerVars == <<recentRequests, lastTrigger>>

restVars == <<openVars, triggerVars>>

(* ----------------------------- helpers --------------------------------- *)
Range(s) == {s[k] : k \in DOMAIN s}

RemoveAt(s, k) == SubSeq(s, 1, k - 1) \o SubSeq(s, k + 1, Len(s))

RECURSIVE Without(_, _)
Without(s, x) ==
    IF s = <<>> THEN <<>>
    ELSE IF Head(s) = x THEN Without(Tail(s), x)
    ELSE <<Head(s)>> \o Without(Tail(s), x)

RECURSIVE Count(_, _)
Count(s, x) ==
    IF s = <<>> THEN 0
    ELSE (IF Head(s) = x THEN 1 ELSE 0) + Count(Tail(s), x)

(* ---------------------------- server_urls ------------------------------ *)
\* URLs the remote service hands out
UrlTexts == {"wss://a.example/1", "wss://b.example/2"}

\* The shapes the server_urls of a meeting.rtms_started can have: null, a
\* string, a number, an object (whose `all` is absent, holds a string, or is
\* a getter that throws), an array of strings.
Candidate(shape, text, allKind, all, items, num) ==
    [shape |-> shape, text |-> text, allKind |-> allKind, all |-> all,
     items |-> items, num |-> num]

NullCandidate == Candidate("null", "", "absent", "", <<>>, 0)
StringCandidate(u) == Candidate("string", u, "absent", "", <<>>, 0)
NumberCandidate(n) == Candidate("number", "", "absent", "", <<>>, n)
ObjectCandidate(allKind, all) == Candidate("object", "", allKind, all, <<>>, 0)
ListCandidate(items) == Candidate("list", "", "absent", "", items, 0)

Lists(maxLen) ==
    UNION {[1..n -> UrlTexts \cup {""}] : n \in 0..maxLen}

Candidates(maxLen) ==
    {NullCandidate}
    \cup {StringCandidate(u) : u \in UrlTexts \cup {""}}
    \cup {NumberCandidate(n) : n \in {0, 42}}
    \cup {ObjectCandidate("absent", ""), ObjectCandidate("throws", "")}
    \cup {ObjectCandidate("value", u) : u \in UrlTexts \cup {""}}
    \cup {ListCandidate(l) : l \in Lists(maxLen)}

\* what resolveWsUrl returns: null or a value
NoUrl == [none |-> TRUE, url |-> ""]
Url(u) == [none |-> FALSE, url |-> u]

\* `!server_urls`: null, the empty string and 0 are falsy; objects and
\* arrays, empty ones too, are truthy
Falsy(c) ==
    \/ c.shape = "null"
    \/ c.shape = "string" /\ c.text = ""
    \/ c.shape = "number" /\ c.num = 0

\* a resolveWsUrl without the `!server_urls` test
resolveWsUrlNoFalsyTest(c) ==
    IF c.shape = "string" THEN Url(c.text)
    ELSE IF c.shape = "object" /\ c.allKind = "value" /\ c.all # "" THEN Url(c.all)
    ELSE IF c.shape = "list" /\ Len(c.items) > 0 THEN Url(c.items[1])
    ELSE NoUrl

\* resolveWsUrl, test by test; a throwing `all` getter ends in the catch
resolveWsUrl(c) ==
    IF Falsy(c) THEN NoUrl
    ELSE IF c.shape = "string" THEN Url(c.text)
    ELSE IF c.shape = "object" /\ c.allKind = "throws" THEN NoUrl
    ELSE IF c.shape = "object" /\ c.allKind = "value" /\ c.all # "" THEN Url(c.all)
    ELSE IF c.shape = "list" /\ Len(c.items) > 0 THEN Url(c.items[1])
    ELSE NoUrl

\* String(server_urls), which `new WebSocket(serverUrl)` applies to its
\* argument: an array of one string is that string, an empty array is "".
\* (A longer array is its elements joined by commas; the scenarios start
\* sessions with arrays of at most one element.)
StringOf(c) ==
    IF c.shape = "null" THEN "null"
    ELSE IF c.shape = "string" THEN c.text
    ELSE IF c.shape = "number" THEN (IF c.num = 0 THEN "0" ELSE "42")
    ELSE IF c.shape = "object" THEN "[object Object]"
    ELSE IF c.items = <<>> THEN "" ELSE c.items[1]

(* --------------------------- wire messages ----------------------------- *)
\* An inbound frame after parseWsJson.  ok = FALSE is a frame JSON.parse
\* rejects.  media_url is msg.media_server?.server_urls?.all, "" when it is
\* absent; data is msg.content?.data, "" when content or data is absent.
Frame(ok, type, status, url, ts, uid, uname, data) ==
    [ok |-> ok, msg_type |-> type, status_code |-> status, media_url |-> url,
     timestamp |-> ts, user_id |-> uid, user_name |-> uname, data |-> data]

NoFrame == Frame(TRUE, 0, 0, "", 0, "", "", "")
\* a frame parseWsJson throws on: no JSON, or data of an unsupported type
MalformedFrame == Frame(FALSE, 0, 0, "", 0, "", "", "")
SignalingHandshakeResp(status, url) == Frame(TRUE, 2, status, url, 0, "", "", "")
DataHandshakeResp(status) == Frame(TRUE, 4, status, "", 0, "", "", "")
KeepAliveReq(ts) == Frame(TRUE, 12, 0, "", ts, "", "", "")
TranscriptData(uid, uname, data, ts) == Frame(TRUE, 17, 0, "", ts, uid, uname, data)

\* HMAC-SHA256 keyed with the secret over "clientId,meetingUuid,streamId",
\* hex encoded: a function of exactly these four values
createHmacSha256(key, data) == <<"hmac-sha256", key, data>>

generateSignature(meetingUuid, streamId) ==
    createHmacSha256(ZOOM_CLIENT_SECRET, <<ZOOM_CLIENT_ID, meetingUuid, streamId>>)

\* the outbound messages (Math.random's sequence number is left out)
SignalingHandshakeReq(m, st) ==
    [msg_type |-> 1, protocol_version |-> 1, meeting_uuid |-> m,
     rtms_stream_id |-> st, signature |-> generateSignature(m, st)]

DataHandshakeReq(m, st) ==
    [msg_type |-> 3, protocol_version |-> 1, meeting_uuid |-> m,
     rtms_stream_id |-> st, signature |-> generateSignature(m, st),
     media_type |-> 8, payload_encryption |-> FALSE]

\* a response built with `msg.timestamp || <default>`: a zero is not echoed
KeepAliveRespFalsy(ts) == [msg_type |-> 13, timestamp |-> IF ts = 0 THEN 1 ELSE ts]

KeepAliveResp(ts) == [msg_type |-> 13, timestamp |-> ts]

ClientReadyAck(st) == [msg_type |-> 7, rtms_stream_id |-> st]

(* ------------------------------ sockets -------------------------------- *)
\* new WebSocket(url): readyState CONNECTING, nothing sent.  sig is the
\* signalingSocket argument of a media socket, 0 for a signaling socket.
NewSocket(kind, i, m, st, url, sig) ==
    [kind |-> kind, inst |-> i, meeting |-> m, stream |-> st, url |-> url,
     state |-> "connecting", sig |-> sig, sent |-> <<>>]

\* ws.send(msg): the message goes out on an OPEN socket; on any other
\* readyState send throws (Deno) or discards the data: nothing is sent
Send(socks, s, msg) ==
    IF socks[s].state = "open"
    THEN [socks EXCEPT ![s].sent = Append(@, msg)]
    ELSE socks

NoEntry == [present |-> FALSE, signaling |-> 0, media |-> 0]

\* requestKey of the trigger endpoint: `${transcript.trim()}_${user_name}`
RequestKeys == {"hello_Alice", "bye_Alice"}

\* let lastPollTimestamp = Date.now(): the time the server module was loaded
StartTime == 1

\* the trigger endpoint has answered no request
NoTriggerYet == [called |-> FALSE]

\* no array is held by a caller
NoArray == [taken |-> FALSE]

(* ------------------------------- Init ---------------------------------- *)
\* the module state at load, whatever the environment
InitModules ==
    /\ sockets = <<>>
    /\ activeConnections = [i \in Instances |-> [m \in Meetings |-> NoEntry]]
    /\ pending = <<>>
    /\ lastHandled = [sock |-> 0, frame |-> NoFrame]
    /\ framesIn = 0
    /\ clients = <<>>
    /\ sseClients = [i \in Instances |-> <<>>]
    /\ recentTranscripts = [i \in Instances |-> <<>>]
    /\ inbox = [i \in Instances |-> <<>>]
    /\ lastRelay = [inst |-> "", origin |-> ""]
    /\ published = [i \in Instances |-> <<>>]
    /\ ready = {}
    /\ errorLog = {}
    /\ resolved = [called |-> FALSE]
    /\ lastPollTimestamp = [i \in Instances |-> StartTime]
    /\ polled = [called |-> FALSE]
    /\ held = NoArray
    /\ signing = {}
    /\ alive = TRUE
    /\ recentRequests = [i \in Instances |-> [k \in RequestKeys |-> 0]]
    /\ lastTrigger = NoTriggerYet

\* the server in an environment that has ZOOM_CLIENT_SECRET
Init == InitModules /\ secretSet = TRUE

(* --------------------------- the registry ------------------------------ *)
\* new WebSocket(url) throws a SyntaxError unless the string is a ws: / wss:
\* URL
ValidWsUrl(str) == str \in UrlTexts \cup {SigUrl} \cup MediaUrls

\* connectToSignalingWebSocket: new WebSocket(serverUrl) on the server_urls as
\* the webhook got them; when the constructor throws, the async function ends
\* there (its promise is rejected and nobody awaits it); otherwise the entry
\* is created when the meeting has none and its signaling slot is set
connectToSignalingSockets(socks, i, m, st, serverUrl) ==
    IF ValidWsUrl(StringOf(serverUrl))
    THEN Append(socks, NewSocket("signaling", i, m, st, StringOf(serverUrl), 0))
    ELSE socks

connectToSignalingRegistry(reg, id, i, m) ==
    [reg EXCEPT ![i][m] =
        [present |-> TRUE, signaling |-> id,
         media |-> IF @.present THEN @.media ELSE 0]]

\* a media socket opened without the back reference to its signaling socket
connectToMediaSocketsNoRef(socks, mediaUrl, i, m, st, signalingSocket) ==
    Append(socks, NewSocket("media", i, m, st, mediaUrl, 0))

\* a media socket stored under the meeting whether or not it has an entry
connectToMediaRegistryCreating(reg, id, i, m) ==
    [reg EXCEPT ![i][m] =
        [present |-> TRUE, signaling |-> @.signaling, media |-> id]]

\* a media socket stored under every meeting of the instance
connectToMediaRegistryEveryMeeting(reg, id, i, m) ==
    [reg EXCEPT ![i] =
        [mm \in Meetings |->
            [present |-> TRUE, signaling |-> @[mm].signaling, media |-> id]]]

\* connectToMediaWebSocket: new WebSocket(mediaUrl), stored in the media slot
\* only when the meeting (still) has an entry
connectToMediaSockets(socks, mediaUrl, i, m, st, signalingSocket) ==
    Append(socks, NewSocket("media", i, m, st, mediaUrl, signalingSocket))

connectToMediaRegistry(reg, id, i, m) ==
    IF reg[i][m].present THEN [reg EXCEPT ![i][m].media = id] ELSE reg

(* ------------------------ transcript distribution ---------------------- *)
\* what an SSE client is sent: ': connected' on subscribe, and
\* 'event: transcript' with the JSON of the payload for a transcript
SseConnected == [event |-> "connected", data |-> [msg_type |-> 0]]
SseTranscript(payload) == [event |-> "transcript", data |-> payload]

\* client.send(text) = controller.enqueue(...): throws when the client's
\* stream is no longer readable (broken), enqueues otherwise
Enqueue(cl, c, text) == [cl EXCEPT ![c].received = Append(@, text)]

\* a buffer that is never cut
addToRecentTranscriptsUncut(buf, transcript) == <<transcript>> \o buf

\* a buffer that appends (push) where the code prepends (unshift)
addToRecentTranscriptsPush(buf, transcript) ==
    LET pushed == buf \o <<transcript>>
    IN  IF Len(pushed) > BufferCapacity
        THEN SubSeq(pushed, 1, BufferCapacity)
        ELSE pushed

\* recentTranscripts.unshift(transcript); slice(0, 50) when longer than 50
addToRecentTranscripts(buf, transcript) ==
    LET unshifted == <<transcript>> \o buf
    IN  IF Len(unshifted) > BufferCapacity
        THEN SubSeq(unshifted, 1, BufferCapacity)
        ELSE unshifted

getRecentTranscripts(i) == recentTranscripts[i]

\* a local SSE loop without the inner try/catch: the first throw ends it
RECURSIVE SseLoopAbortOnThrow(_, _, _)
SseLoopAbortOnThrow(cl, members, text) ==
    IF members = <<>> THEN cl
    ELSE LET c == Head(members)
         IN  IF cl[c].broken
             THEN cl
             ELSE SseLoopAbortOnThrow(Enqueue(cl, c, text), Tail(members), text)

\* a local SSE loop that visits every client of the Set twice
RECURSIVE SseLoopTwice(_, _, _)
SseLoopTwice(cl, members, text) ==
    IF members = <<>> THEN cl
    ELSE LET c == Head(members)
         IN  IF cl[c].broken
             THEN SseLoopTwice(cl, Tail(members), text)
             ELSE SseLoopTwice(Enqueue(Enqueue(cl, c, text), c, text),
                               Tail(members), text)

\* a local SSE loop that stops after the first client of the Set
SseLoopFirstOnly(cl, members, text) ==
    IF members = <<>> THEN cl
    ELSE IF cl[Head(members)].broken THEN cl
         ELSE Enqueue(cl, Head(members), text)

\* the local SSE loop of a publish: each client.send has its own try/catch,
\* a throwing client is logged and the loop goes on with the next client
RECURSIVE SseLoopGuarded(_, _, _)
SseLoopGuarded(cl, members, text) ==
    IF members = <<>> THEN cl
    ELSE LET c == Head(members)
         IN  IF cl[c].broken
             THEN SseLoopGuarded(cl, Tail(members), text)
             ELSE SseLoopGuarded(Enqueue(cl, c, text), Tail(members), text)

\* the loop of bc.onmessage: one try/catch around the whole loop, so the
\* first throwing client ends the loop
RECURSIVE SseLoopUnguarded(_, _, _)
SseLoopUnguarded(cl, members, text) ==
    IF members = <<>> THEN cl
    ELSE LET c == Head(members)
         IN  IF cl[c].broken
             THEN cl
             ELSE SseLoopUnguarded(Enqueue(cl, c, text), Tail(members), text)

\* bc.postMessage(envelope): the bus hands the envelope to the channel of
\* every other instance; whether the sender's own channel hears it too is the
\* platform's choice (echo), which the origin test of bc.onmessage allows for
postMessage(box, i, envelope, echo) ==
    [j \in Instances |->
        IF j # i \/ echo THEN Append(box[j], envelope) ELSE box[j]]

\* an envelope that does not say which instance posted it
RelayEnvelopeAnonymous(i, payload) ==
    [type |-> "transcript", origin |-> "", payload |-> payload]

RelayEnvelope(i, payload) ==
    [type |-> "transcript", origin |-> INSTANCE_ID(i), payload |-> payload]

\* the msg_type 17 branch of mediaWs.onmessage: buffer, local SSE, relay
Publish(i, content) ==
    LET payload == [msg_type |-> 17, content |-> content]
    IN  /\ recentTranscripts' =
              [recentTranscripts EXCEPT ![i] = addToRecentTranscripts(@, content)]
        /\ clients' = SseLoopGuarded(clients, sseClients[i], SseTranscript(payload))
        /\ \E echo \in BOOLEAN :
              inbox' = postMessage(inbox, i, RelayEnvelope(i, payload), echo)
        /\ published' = [published EXCEPT ![i] = Append(@, content)]
        /\ UNCHANGED <<sseClients, lastRelay>>

\* a relay handler without the origin test
BcOnMessageClientsNoOriginTest(cl, members, i, msg) ==
    IF msg.type = "transcript"
    THEN SseLoopUnguarded(cl, members, SseTranscript(msg.payload))
    ELSE cl

\* bc.onmessage: an envelope of this instance is ignored, a transcript of
\* another instance is sent to the local SSE clients
BcOnMessageClients(cl, members, i, msg) ==
    IF msg.origin = INSTANCE_ID(i) THEN cl
    ELSE IF msg.type = "transcript"
         THEN SseLoopUnguarded(cl, members, SseTranscript(msg.payload))
         ELSE cl

BcOnMessage(i) ==
    /\ inbox[i] # <<>>
    /\ clients' = BcOnMessageClients(clients, sseClients[i], i, Head(inbox[i]))
    /\ inbox' = [inbox EXCEPT ![i] = Tail(@)]
    /\ lastRelay' = [inst |-> i, origin |-> Head(inbox[i]).origin]
    /\ UNCHANGED <<sseClients, recentTranscripts, published>>
    /\ UNCHANGED protoVars

\* a subscription that replays the recency buffer to the new client
SubscribeWithReplay(i, maxClients) ==
    /\ Len(clients) < maxClients
    /\ clients' = Append(clients,
                         [inst |-> i, broken |-> FALSE,
                          received |-> <<SseConnected>> \o
                              [j \in 1 .. Len(recentTranscripts[i]) |->
                                  SseTranscript([msg_type |-> 17,
                                                 content |-> recentTranscripts[i][j]])]])
    /\ sseClients' = [sseClients EXCEPT ![i] = Append(@, Len(clients) + 1)]
    /\ UNCHANGED <<recentTranscripts, inbox, lastRelay, published>>
    /\ UNCHANGED protoVars

\* app.get('/events') start(controller): the client joins the Set and is sent
\* the connection confirmation
Subscribe(i, maxClients) ==
    /\ Len(clients) < maxClients
    /\ clients' = Append(clients,
                         [inst |-> i, broken |-> FALSE, received |-> <<SseConnected>>])
    /\ sseClients' = [sseClients EXCEPT ![i] = Append(@, Len(clients) + 1)]
    /\ UNCHANGED <<recentTranscripts, inbox, lastRelay, published>>
    /\ UNCHANGED protoVars

\* app.get('/events') cancel(): the client's stream is cancelled (closed,
\* what it was sent is discarded with it) and the client leaves the Set
Unsubscribe(c) ==
    /\ c \in DOMAIN clients
    /\ c \in Range(sseClients[clients[c].inst])
    /\ sseClients' = [sseClients EXCEPT ![clients[c].inst] = Without(@, c)]
    /\ clients' = [clients EXCEPT ![c].broken = TRUE, ![c].received = <<>>]
    /\ UNCHANGED <<recentTranscripts, inbox, lastRelay, published>>
    /\ UNCHANGED protoVars

\* the stream of a client stops being readable without cancel() having run:
\* from now on client.send throws
SinkBreak(c) ==
    /\ c \in DOMAIN clients
    /\ c \in Range(sseClients[clients[c].inst])
    /\ ~clients[c].broken
    /\ clients' = [clients EXCEPT ![c].broken = TRUE]
    /\ UNCHANGED <<sseClients, recentTranscripts, inbox, lastRelay, published>>
    /\ UNCHANGED protoVars

(* -------------------------- message handlers --------------------------- *)
\* a signaling handler that does not test status_code
SignalingOnMessageSocketsAnyStatus(socks, s, f) ==
    IF ~f.ok THEN socks
    ELSE IF f.msg_type = 2
         THEN IF f.media_url # ""
              THEN connectToMediaSockets(socks, f.media_url, socks[s].inst,
                                         socks[s].meeting, socks[s].stream, s)
              ELSE socks
    ELSE IF f.msg_type = 12
         THEN Send(socks, s, KeepAliveResp(f.timestamp))
    ELSE socks

\* ws.onmessage of the signaling socket s, after parseWsJson
SignalingOnMessageSockets(socks, s, f) ==
    IF ~f.ok THEN socks
    ELSE IF f.msg_type = 2 /\ f.status_code = 0
         THEN IF f.media_url # ""
              THEN connectToMediaSockets(socks, f.media_url, socks[s].inst,
                                         socks[s].meeting, socks[s].stream, s)
              ELSE socks
    ELSE IF f.msg_type = 12
         THEN Send(socks, s, KeepAliveResp(f.timestamp))
    ELSE socks

SignalingOnMessageRegistry(reg, socks, s, f) ==
    IF f.ok /\ f.msg_type = 2 /\ f.status_code = 0 /\ f.media_url # ""
    THEN connectToMediaRegistry(reg, Len(socks) + 1, socks[s].inst, socks[s].meeting)
    ELSE reg

\* a media handler that acknowledges on its own socket
MediaOnMessageSocketsAckOnMedia(socks, s, f) ==
    IF ~f.ok THEN socks
    ELSE IF f.msg_type = 4 /\ f.status_code = 0
         THEN Send(socks, s, ClientReadyAck(socks[s].stream))
    ELSE IF f.msg_type = 12
         THEN Send(socks, s, KeepAliveResp(f.timestamp))
    ELSE socks

\* a media handler that closes its socket on a frame it cannot parse
MediaOnMessageSocketsCloseOnMalformed(socks, s, f) ==
    IF ~f.ok THEN [socks EXCEPT ![s].state = "closing"]
    ELSE IF f.msg_type = 4 /\ f.status_code = 0
         THEN Send(socks, socks[s].sig, ClientReadyAck(socks[s].stream))
    ELSE IF f.msg_type = 12
         THEN Send(socks, s, KeepAliveResp(f.timestamp))
    ELSE socks

\* mediaWs.onmessage of the media socket s, after parseWsJson
MediaOnMessageSockets(socks, s, f) ==
    IF ~f.ok THEN socks
    ELSE IF f.msg_type = 4 /\ f.status_code = 0
         THEN Send(socks, socks[s].sig, ClientReadyAck(socks[s].stream))
    ELSE IF f.msg_type = 12
         THEN Send(socks, s, KeepAliveResp(f.timestamp))
    ELSE socks

\* a test of the message type alone
IsTranscriptAnyData(f) == f.ok /\ f.msg_type = 17

IsTranscript(f) == f.ok /\ f.msg_type = 17 /\ f.data # ""

\* a transcript stamped with a time of the server, not with the frame's
TranscriptContentRestamped(f) ==
    [user_id |-> f.user_id, user_name |-> f.user_name, data |-> f.data,
     timestamp |-> 0]

TranscriptContent(f) ==
    [user_id |-> f.user_id, user_name |-> f.user_name, data |-> f.data,
     timestamp |-> f.timestamp]

(* ------------------------------ actions -------------------------------- *)
\* webhook meeting.rtms_started: connectToSignalingWebSocket(meeting_uuid,
\* rtms_stream_id, server_urls)
SessionStartRegistry(reg, socks, i, m, serverUrl) ==
    IF ValidWsUrl(StringOf(serverUrl))
    THEN connectToSignalingRegistry(reg, Len(socks) + 1, i, m)
    ELSE reg

SessionStart(i, m, st, serverUrl, maxSockets) ==
    /\ Len(sockets) < maxSockets
    /\ sockets' = connectToSignalingSockets(sockets, i, m, st, serverUrl)
    /\ activeConnections' =
          SessionStartRegistry(activeConnections, sockets, i, m, serverUrl)
    /\ UNCHANGED <<pending, lastHandled, framesIn>>
    /\ UNCHANGED bcastVars

\* a call of resolveWsUrl
Resolve(c) ==
    /\ resolved' = [called |-> TRUE, candidate |-> c, result |-> resolveWsUrl(c)]
    /\ UNCHANGED <<ready, errorLog>>
    /\ UNCHANGED <<pollVars, restVars>>
    /\ UNCHANGED protoVars
    /\ UNCHANGED bcastVars

\* the open event: readyState OPEN; onopen signs and sends the handshake
\* request of the socket's kind
HandshakeReq(so) ==
    IF so.kind = "signaling"
    THEN SignalingHandshakeReq(so.meeting, so.stream)
    ELSE DataHandshakeReq(so.meeting, so.stream)

\* the open event of a socket whose signature settles before any other
\* event is handled: readyState OPEN and the handshake request is sent
OnOpen(s) ==
    /\ s \in DOMAIN sockets
    /\ sockets[s].state = "connecting"
    /\ sockets' = Send([sockets EXCEPT ![s].state = "open"], s, HandshakeReq(sockets[s]))
    /\ UNCHANGED <<activeConnections, pending, lastHandled, framesIn>>
    /\ UNCHANGED bcastVars

\* the message event of an open socket carrying a Blob frame: the handler
\* starts and awaits parseWsJson(event.data), which reads the Blob
Receive(s, f, maxFrames, maxPending) ==
    /\ s \in DOMAIN sockets
    /\ sockets[s].state = "open"
    /\ framesIn < maxFrames
    /\ Len(pending) < maxPending
    /\ pending' = Append(pending, [sock |-> s, frame |-> f])
    /\ framesIn' = framesIn + 1
    /\ UNCHANGED <<sockets, activeConnections, lastHandled>>
    /\ UNCHANGED bcastVars

\* the message handler of socket s on the parsed frame f: the code after
\* `await parseWsJson(event.data)`
OnMessage(s, f, maxSockets) ==
    IF sockets[s].kind = "signaling"
    THEN /\ f.ok /\ f.msg_type = 2 /\ f.status_code = 0 /\ f.media_url # ""
              => Len(sockets) < maxSockets
         /\ sockets' = SignalingOnMessageSockets(sockets, s, f)
         /\ activeConnections' =
               SignalingOnMessageRegistry(activeConnections, sockets, s, f)
         /\ UNCHANGED bcastVars
    ELSE /\ sockets' = MediaOnMessageSockets(sockets, s, f)
         /\ UNCHANGED activeConnections
         /\ IF IsTranscript(f)
            THEN Publish(sockets[s].inst, TranscriptContent(f))
            ELSE UNCHANGED bcastVars

\* a Blob frame: the handler resumes after the Blob was read
Handle(k, maxSockets) ==
    /\ k \in DOMAIN pending
    /\ pending' = RemoveAt(pending, k)
    /\ lastHandled' = pending[k]
    /\ UNCHANGED framesIn
    /\ OnMessage(pending[k].sock, pending[k].frame, maxSockets)

\* a text frame on an open socket: parseWsJson returns without yielding to
\* the event loop, so the handler runs to its end before any other event
ReceiveText(s, f, maxFrames, maxSockets) ==
    /\ s \in DOMAIN sockets
    /\ sockets[s].state = "open"
    /\ framesIn < maxFrames
    /\ framesIn' = framesIn + 1
    /\ lastHandled' = [sock |-> s, frame |-> f]
    /\ UNCHANGED pending
    /\ OnMessage(s, f, maxSockets)

\* an onclose that deletes the meeting's whole entry
OnCloseRegistryDropEntry(reg, socks, s) ==
    [reg EXCEPT ![socks[s].inst][socks[s].meeting] = NoEntry]

\* an onclose that leaves the registry alone
OnCloseRegistryKeepSlot(reg, socks, s) == reg

\* an onclose that empties the slot of its kind in every entry of the Map
OnCloseRegistryEveryMeeting(reg, socks, s) ==
    [reg EXCEPT ![socks[s].inst] =
        [mm \in Meetings |->
            IF ~@[mm].present THEN @[mm]
            ELSE IF socks[s].kind = "signaling"
                 THEN [@[mm] EXCEPT !.signaling = 0]
                 ELSE [@[mm] EXCEPT !.media = 0]]]

\* the close event of a socket: readyState CLOSED; onclose deletes the slot of
\* its kind from the meeting's entry, when the meeting has one
OnCloseRegistry(reg, socks, s) ==
    LET i == socks[s].inst
        m == socks[s].meeting
    IN  IF ~reg[i][m].present THEN reg
        ELSE IF socks[s].kind = "signaling"
             THEN [reg EXCEPT ![i][m].signaling = 0]
             ELSE [reg EXCEPT ![i][m].media = 0]

OnClose(s) ==
    /\ s \in DOMAIN sockets
    /\ sockets[s].state # "closed"
    /\ sockets' = [sockets EXCEPT ![s].state = "closed"]
    /\ activeConnections' = OnCloseRegistry(activeConnections, sockets, s)
    /\ UNCHANGED <<pending, lastHandled, framesIn>>
    /\ UNCHANGED bcastVars

\* the error event of a socket: the connection has failed, readyState is
\* CLOSED, and the platform fires error and then close in the same task;
\* onerror logs the error, onclose runs as for any close
OnError(s) ==
    /\ s \in DOMAIN sockets
    /\ sockets[s].state # "closed"
    /\ errorLog' = errorLog \cup {s}
    /\ sockets' = [sockets EXCEPT ![s].state = "closed"]
    /\ activeConnections' = OnCloseRegistry(activeConnections, sockets, s)
    /\ UNCHANGED <<pending, lastHandled, framesIn>>
    /\ UNCHANGED bcastVars

\* a stop that calls close() on the signaling handle only
CloseHandlesSignalingOnly(socks, entry) ==
    [s \in DOMAIN socks |->
        IF s = entry.signaling /\ socks[s].state \in {"connecting", "open"}
        THEN [socks[s] EXCEPT !.state = "closing"]
        ELSE socks[s]]

\* webhook meeting.rtms_stopped: close() on every handle of the entry, then
\* the entry is deleted; nothing when the meeting has no entry
CloseHandles(socks, entry) ==
    [s \in DOMAIN socks |->
        IF s \in {entry.signaling, entry.media} /\ socks[s].state \in {"connecting", "open"}
        THEN [socks[s] EXCEPT !.state = "closing"]
        ELSE socks[s]]

SessionStopSockets(socks, reg, i, m) ==
    IF reg[i][m].present THEN CloseHandles(socks, reg[i][m]) ELSE socks

\* a stop that empties the whole Map
SessionStopRegistryClearAll(reg, i, m) ==
    [reg EXCEPT ![i] = [mm \in Meetings |-> NoEntry]]

SessionStopRegistry(reg, i, m) ==
    IF reg[i][m].present THEN [reg EXCEPT ![i][m] = NoEntry] ELSE reg

SessionStop(i, m) ==
    /\ sockets' = SessionStopSockets(sockets, activeConnections, i, m)
    /\ activeConnections' = SessionStopRegistry(activeConnections, i, m)
    /\ UNCHANGED <<pending, lastHandled, framesIn>>
    /\ UNCHANGED bcastVars

(* --------------------------- specifications ---------------------------- *)
\* the step leaves the records of what happened as they are; it is no poll
\* and no request of the trigger endpoint, no caller holds an array, no open
\* handler awaits its signature, and the process runs on
NoHistory == UNCHANGED <<historyVars, pollVars, restVars>>

\* the step handles frame f on socket s: a media socket that handles a
\* data-handshake success is recorded
TrackReady(s, f) ==
    /\ ready' = IF sockets[s].kind = "media" /\ f.ok
                    /\ f.msg_type = 4 /\ f.status_code = 0
                 THEN ready \cup {s}
                 ELSE ready
    /\ UNCHANGED <<errorLog, resolved>>
    /\ UNCHANGED <<pollVars, restVars>>

\* frames of the protocol scenario, by the kind of socket they arrive on
ProtoFrameSet(kind) ==
    IF kind = "signaling"
    THEN {SignalingHandshakeResp(0, u) : u \in MediaUrls \cup {""}}
         \cup {SignalingHandshakeResp(1, u) : u \in MediaUrls}
         \cup {KeepAliveReq(t) : t \in KeepAliveStamps}
    ELSE {DataHandshakeResp(0), DataHandshakeResp(1)}
         \cup {KeepAliveReq(t) : t \in KeepAliveStamps}

\* the protocol of one meeting on one instance, the frames arriving as Blobs
NextProto ==
    \/ SessionStart("A", "m1", "st1", SigUrls, ProtoSockets) /\ NoHistory
    \/ \E s \in DOMAIN sockets : OnOpen(s) /\ NoHistory
    \/ \E s \in DOMAIN sockets :
          \E f \in ProtoFrameSet(sockets[s].kind) :
             Receive(s, f, ProtoFrames, ProtoPending) /\ NoHistory
    \/ \E k \in DOMAIN pending : Handle(k, ProtoSockets) /\ NoHistory
    \/ \E s \in DOMAIN sockets : OnClose(s) /\ NoHistory
    \/ SessionStop("A", "m1") /\ NoHistory

SpecProto == Init /\ [][NextProto]_vars

\* frames of the relay scenario: the signaling handshake succeeds and the
\* media socket carries transcripts, which the remote service stamps with
\* increasing timestamps
RelayFrameSet(kind) ==
    IF kind = "signaling"
    THEN {SignalingHandshakeResp(0, u) : u \in MediaUrls}
    ELSE {TranscriptData("u1", "Alice", "hello", framesIn + 1)}

\* two instances on one bus, with their SSE clients; the meeting is served by
\* instance A
NextRelay ==
    \/ SessionStart("A", "m1", "st1", SigUrls, RelaySockets) /\ NoHistory
    \/ \E s \in DOMAIN sockets : OnOpen(s) /\ NoHistory
    \/ \E s \in DOMAIN sockets :
          \E f \in RelayFrameSet(sockets[s].kind) :
             ReceiveText(s, f, RelayFrames, RelaySockets) /\ NoHistory
    \/ \E i \in Instances : Subscribe(i, RelayClients) /\ NoHistory
    \/ \E c \in DOMAIN clients : Unsubscribe(c) /\ NoHistory
    \/ \E c \in DOMAIN clients : SinkBreak(c) /\ NoHistory
    \/ \E i \in Instances : BcOnMessage(i) /\ NoHistory

SpecRelay == Init /\ [][NextRelay]_vars

\* frames of the buffer scenario: as in the relay scenario
BufFrameSet(kind) == RelayFrameSet(kind)

\* one instance receiving a long run of transcripts, on a bus that does not
\* deliver a message to the channel that posted it
NextBuffer ==
    \/ SessionStart("A", "m1", "st1", SigUrls, BufSockets) /\ NoHistory
    \/ \E s \in DOMAIN sockets : OnOpen(s) /\ NoHistory
    \/ \E s \in DOMAIN sockets :
          \E f \in BufFrameSet(sockets[s].kind) :
             /\ ReceiveText(s, f, BufFrames, BufSockets)
             /\ inbox'["A"] = inbox["A"]
             /\ NoHistory
    \/ \E s \in DOMAIN sockets : OnClose(s) /\ NoHistory

SpecBuffer == Init /\ [][NextBuffer]_vars

\* the stream the remote service runs for a meeting
StreamOf(m) == IF m = "m1" THEN "st1" ELSE "st2"

\* frames of the registry scenario: both handshakes succeed
RegFrameSet(kind) ==
    IF kind = "signaling"
    THEN {SignalingHandshakeResp(0, u) : u \in MediaUrls}
    ELSE {DataHandshakeResp(0)}

\* two meetings on one instance: sessions start and stop, sockets close,
\* frames arrive as Blobs
NextReg ==
    \/ \E m \in Meetings :
          SessionStart("A", m, StreamOf(m), SigUrls, RegSockets) /\ NoHistory
    \/ \E s \in DOMAIN sockets : OnOpen(s) /\ NoHistory
    \/ \E s \in DOMAIN sockets :
          \E f \in RegFrameSet(sockets[s].kind) :
             Receive(s, f, RegFrames, RegPending) /\ NoHistory
    \/ \E k \in DOMAIN pending : Handle(k, RegSockets) /\ NoHistory
    \/ \E s \in DOMAIN sockets : OnClose(s) /\ NoHistory
    \/ \E m \in Meetings : SessionStop("A", m) /\ NoHistory

SpecReg == Init /\ [][NextReg]_vars

\* server_urls of the start scenario
StartCandidates ==
    {c \in Candidates(MaxList) : c.shape = "list" => Len(c.items) <= 1}

\* session starts with server_urls of every shape, and calls of resolveWsUrl
NextStart ==
    \/ \E c \in StartCandidates :
          SessionStart("A", "m1", "st1", c, StartSockets) /\ NoHistory
    \/ \E s \in DOMAIN sockets : OnOpen(s) /\ NoHistory
    \/ \E s \in DOMAIN sockets : OnClose(s) /\ NoHistory
    \/ \E c \in Candidates(MaxList) : Resolve(c)

SpecStart == Init /\ [][NextStart]_vars

\* frames of the close scenario: the signaling handshake succeeds
CloseFrameSet(kind) ==
    IF kind = "signaling"
    THEN {SignalingHandshakeResp(0, u) : u \in MediaUrls}
    ELSE {}

\* two meetings on one instance whose sockets close and fail
NextClose ==
    \/ \E m \in Meetings :
          SessionStart("A", m, StreamOf(m), SigUrls, CloseSockets) /\ NoHistory
    \/ \E s \in DOMAIN sockets : OnOpen(s) /\ NoHistory
    \/ \E s \in DOMAIN sockets :
          \E f \in CloseFrameSet(sockets[s].kind) :
             ReceiveText(s, f, CloseFrames, CloseSockets) /\ NoHistory
    \/ \E s \in DOMAIN sockets : OnClose(s) /\ NoHistory
    \/ \E s \in DOMAIN sockets : OnError(s) /\ UNCHANGED <<ready, resolved, pollVars, restVars>>

SpecClose == Init /\ [][NextClose]_vars

\* frames of the frame scenario: handshake responses, transcripts with
\* increasing timestamps, and frames that cannot be parsed
FrameFrameSet(kind) ==
    IF kind = "signaling"
    THEN {SignalingHandshakeResp(0, u) : u \in MediaUrls} \cup {MalformedFrame}
    ELSE {DataHandshakeResp(0), DataHandshakeResp(1), MalformedFrame,
          TranscriptData("u1", "Alice", "hello", framesIn + 1)}

\* one meeting with an SSE client, the frames arriving as text, on a bus that
\* does not deliver a message to the channel that posted it
NextFrames ==
    \/ SessionStart("A", "m1", "st1", SigUrls, FrameSockets) /\ NoHistory
    \/ \E s \in DOMAIN sockets : OnOpen(s) /\ NoHistory
    \/ \E s \in DOMAIN sockets :
          \E f \in FrameFrameSet(sockets[s].kind) :
             /\ ReceiveText(s, f, FrameFrames, FrameSockets)
             /\ inbox'["A"] = inbox["A"]
             /\ TrackReady(s, f)
    \/ Subscribe("A", FrameClients) /\ NoHistory

SpecFrames == Init /\ [][NextFrames]_vars

(* ------------------------- protocol properties ------------------------- *)
\* the step completes the handler invocation pending[k]
Handled(k) ==
    /\ k \in DOMAIN pending
    /\ pending' = RemoveAt(pending, k)
    /\ lastHandled' = pending[k]

RECURSIVE CountType(_, _)
CountType(msgs, type) ==
    IF msgs = <<>> THEN 0
    ELSE (IF Head(msgs).msg_type = type THEN 1 ELSE 0) + CountType(Tail(msgs), type)

\* C7: a keep-alive request handled on a signaling or media socket that is
\* open (whatever the handshake has come to: not answered yet, rejected or
\* succeeded) makes exactly one message go out, on that same socket: the
\* keep-alive response carrying the received timestamp, zero and negative
\* values included; nothing else changes on any socket.
C7_KeepAliveEcho ==
    [][\A k \in DOMAIN pending :
          (/\ Handled(k)
           /\ pending[k].frame.ok
           /\ pending[k].frame.msg_type = 12
           /\ sockets[pending[k].sock].state = "open")
          => sockets' = [sockets EXCEPT ![pending[k].sock].sent =
                           Append(@, [msg_type |-> 13,
                                      timestamp |-> pending[k].frame.timestamp])]]_vars

\* a media socket whose data handshake is still unanswered has echoed the
\* timestamp zero
C7_Witness ==
    /\ lastHandled.frame = KeepAliveReq(0)
    /\ lastHandled.sock \in DOMAIN sockets
    /\ sockets[lastHandled.sock].kind = "media"
    /\ sockets[lastHandled.sock].sent =
          <<DataHandshakeReq("m1", "st1"), [msg_type |-> 13, timestamp |-> 0]>>

AckGoesOut(s) ==
    CountType(sockets'[s].sent, 7) > CountType(sockets[s].sent, 7)

\* the step completes a data-handshake-success response of media socket pending[k].sock
DataSuccessHandled(k) ==
    /\ Handled(k)
    /\ sockets[pending[k].sock].kind = "media"
    /\ pending[k].frame.ok
    /\ pending[k].frame.msg_type = 4
    /\ pending[k].frame.status_code = 0

\* C9 as stated: every data-handshake-success response handled on a media
\* socket puts exactly one client-ready-ack, with the session's stream id, on
\* the signaling socket that opened the media socket.
C9_AckPerSuccess ==
    [][\A k \in DOMAIN pending :
          DataSuccessHandled(k)
          => sockets' = [sockets EXCEPT ![sockets[pending[k].sock].sig].sent =
                           Append(@, [msg_type |-> 7,
                                      rtms_stream_id |-> sockets[pending[k].sock].stream])]]_vars

\* C9 amended: a client-ready-ack goes out only when a
\* data-handshake-success response is handled on a media socket, on the
\* signaling socket that opened that media socket, never on a media socket,
\* with the session's stream id: exactly one when that signaling socket is
\* open, none when it is no longer open.
C9_AckOnlyOnSuccess ==
    [][/\ \A k \in DOMAIN pending :
             DataSuccessHandled(k)
             => IF sockets[sockets[pending[k].sock].sig].state = "open"
                THEN sockets' = [sockets EXCEPT ![sockets[pending[k].sock].sig].sent =
                                   Append(@, [msg_type |-> 7,
                                              rtms_stream_id |-> sockets[pending[k].sock].stream])]
                ELSE sockets' = sockets
       /\ \A s \in DOMAIN sockets :
             AckGoesOut(s)
             => /\ sockets[s].kind = "signaling"
                /\ \E k \in DOMAIN pending :
                      DataSuccessHandled(k) /\ sockets[pending[k].sock].sig = s]_vars

\* the signaling socket has sent its handshake and then one ack, after the
\* media socket it opened handled a data-handshake-success response
C9_Witness ==
    /\ lastHandled.frame = DataHandshakeResp(0)
    /\ lastHandled.sock \in DOMAIN sockets
    /\ sockets[lastHandled.sock].kind = "media"
    /\ sockets[sockets[lastHandled.sock].sig].sent =
          <<SignalingHandshakeReq("m1", "st1"), [msg_type |-> 7, rtms_stream_id |-> "st1"]>>
    /\ CountType(sockets[lastHandled.sock].sent, 7) = 0

\* C10: handling a handshake response with a status other than 0 changes no
\* socket and no registry entry: no media socket is opened, no
\* client-ready-ack goes out, no socket is closed and the meeting's slots stay.
C10_RejectionIsInert ==
    [][\A k \in DOMAIN pending :
          (/\ Handled(k)
           /\ pending[k].frame.ok
           /\ pending[k].frame.msg_type \in {2, 4}
           /\ pending[k].frame.status_code # 0)
          => /\ sockets' = sockets
             /\ activeConnections' = activeConnections]_vars

\* a rejected data handshake was handled: both sockets are still open and in
\* their slots, and the signaling socket has sent nothing but its handshake
C10_Witness ==
    /\ lastHandled.frame = DataHandshakeResp(1)
    /\ lastHandled.sock \in DOMAIN sockets
    /\ sockets[lastHandled.sock].kind = "media"
    /\ sockets[lastHandled.sock].state = "open"
    /\ sockets[sockets[lastHandled.sock].sig].state = "open"
    /\ activeConnections["A"]["m1"] =
          [present |-> TRUE, signaling |-> sockets[lastHandled.sock].sig,
           media |-> lastHandled.sock]
    /\ CountType(sockets[sockets[lastHandled.sock].sig].sent, 7) = 0

(* ----------------------- distribution properties ----------------------- *)
\* the step publishes a transcript on instance i
PublishStep(i) == published'[i] # published[i]

\* the step is bc.onmessage of instance i
RelayStep(i) == Len(inbox'[i]) < Len(inbox[i])

\* what an SSE client is sent for the transcript `content`
TranscriptItem(content) ==
    [event |-> "transcript", data |-> [msg_type |-> 17, content |-> content]]

\* client c with one more item in its stream
Got(c, item) == [clients[c] EXCEPT !.received = Append(@, item)]

\* C1 as stated: a publish sends the transcript once to every SSE client of
\* its instance whose stream accepts it and posts one envelope to the other
\* instance; the other instance's bc.onmessage sends the transcript once to
\* every SSE client of that instance whose stream accepts it; no
\* bc.onmessage posts to the bus or publishes; no client is sent a published
\* transcript twice.
C1_ExactlyOnceOnBothInstances ==
    [][/\ \A i \in Instances :
             PublishStep(i)
             => LET content == published'[i][Len(published'[i])]
                IN  /\ \A c \in Range(sseClients[i]) :
                          ~clients[c].broken
                          => clients'[c] = Got(c, TranscriptItem(content))
                    /\ \A j \in Instances \ {i} :
                          inbox'[j] =
                             Append(inbox[j],
                                    [type |-> "transcript", origin |-> i,
                                     payload |-> [msg_type |-> 17, content |-> content]])
       /\ \A j \in Instances :
             RelayStep(j)
             => /\ inbox' = [inbox EXCEPT ![j] = Tail(@)]
                /\ published' = published
                /\ IF Head(inbox[j]).origin = j
                   THEN clients' = clients
                   ELSE \A c \in Range(sseClients[j]) :
                           ~clients[c].broken
                           => clients'[c] =
                                 Got(c, [event |-> "transcript",
                                         data |-> Head(inbox[j]).payload])
       /\ \A c \in DOMAIN clients' : \A i \in Instances : \A n \in DOMAIN published'[i] :
             Count(clients'[c].received, TranscriptItem(published'[i][n])) <= 1]_vars

\* C2: bc.onmessage posts nothing to the bus; an envelope whose origin is the
\* handling instance changes no client's stream; an envelope of another origin
\* is sent to SSE clients of the handling instance only, at most once each,
\* and to each of them that has no throwing client before it in the Set.
C2_RelayIsLocalAndFinal ==
    [][\A j \in Instances :
          RelayStep(j)
          => /\ inbox' = [inbox EXCEPT ![j] = Tail(@)]
             /\ IF Head(inbox[j]).origin = j
                THEN clients' = clients
                ELSE LET item == [event |-> "transcript", data |-> Head(inbox[j]).payload]
                     IN  /\ \A c \in DOMAIN clients \ Range(sseClients[j]) :
                               clients'[c] = clients[c]
                         /\ \A n \in DOMAIN sseClients[j] :
                               LET c == sseClients[j][n]
                               IN  /\ clients'[c] \in {clients[c], Got(c, item)}
                                   /\ (\A k \in 1..n : ~clients[sseClients[j][k]].broken)
                                         => clients'[c] = Got(c, item)]_vars

\* instance A has just ignored the echo of its own envelope, after its client
\* got the transcript from the publish and the client of B got it from the relay
C2_Witness ==
    /\ lastRelay = [inst |-> "A", origin |-> "A"]
    /\ published["B"] = <<>>
    /\ Len(published["A"]) = 1
    /\ \E c \in Range(sseClients["A"]) :
          clients[c].received = <<SseConnected, TranscriptItem(published["A"][1])>>
    /\ \E c \in Range(sseClients["B"]) :
          clients[c].received = <<SseConnected, TranscriptItem(published["A"][1])>>

\* C3: the recency buffer of an instance never holds more than 50 entries.
C3_BufferAtMost50 ==
    \A i \in Instances : Len(recentTranscripts[i]) <= 50

\* 52 transcripts were published and the buffer holds 50
C3_Witness ==
    /\ Len(published["A"]) = 52
    /\ Len(recentTranscripts["A"]) = 50

\* C4: after n publishes recent() is the last min(n, 50) published
\* transcripts, the newest first.
C4_BufferIsLastPublishedNewestFirst ==
    \A i \in Instances :
        LET n == Len(published[i])
            kept == IF n > 50 THEN 50 ELSE n
        IN  getRecentTranscripts(i) = [j \in 1..kept |-> published[i][n + 1 - j]]

\* 51 transcripts were published: the newest is first and the oldest is gone
C4_Witness ==
    /\ Len(published["A"]) = 51
    /\ getRecentTranscripts("A")[1] = published["A"][51]
    /\ getRecentTranscripts("A")[50] = published["A"][2]
    /\ published["A"][1] \notin Range(getRecentTranscripts("A"))

\* C5: in a publish, every SSE client of the instance whose stream accepts
\* the transcript is sent it, whatever the other clients of the Set do.
C5_PublishIsolatesFailures ==
    [][\A i \in Instances :
          PublishStep(i)
          => \A c \in Range(sseClients[i]) :
                ~clients[c].broken
                => clients'[c] =
                      Got(c, TranscriptItem(published'[i][Len(published'[i])]))]_vars

\* the first client of the Set throws, the second one was sent the transcript
C5_Witness ==
    \E i \in Instances :
        /\ Len(sseClients[i]) = 2
        /\ Len(published[i]) = 1
        /\ clients[sseClients[i][1]].broken
        /\ clients[sseClients[i][1]].received = <<SseConnected>>
        /\ clients[sseClients[i][2]].received =
              <<SseConnected, TranscriptItem(published[i][1])>>

\* C6 as stated: a client whose delivery throws during a publish is no longer
\* in the Set after that publish.
C6_FailedSinkDropped ==
    [][\A i \in Instances :
          PublishStep(i)
          => \A c \in Range(sseClients[i]) :
                clients[c].broken => c \notin Range(sseClients'[i])]_vars

(* ------------------------- registry properties ------------------------- *)
\* C11: a meeting.rtms_stopped for a meeting that has an entry calls close()
\* on the signaling and the media handle of the entry, whichever are there
\* (a connecting or open socket goes to closing), and removes the entry.
C11_DeregisterClosesAndRemoves ==
    [][\A i \in Instances : \A m \in Meetings :
          (activeConnections[i][m].present /\ ~activeConnections'[i][m].present)
          => /\ activeConnections'[i][m] =
                   [present |-> FALSE, signaling |-> 0, media |-> 0]
             /\ \A s \in DOMAIN sockets :
                   (s = activeConnections[i][m].signaling
                       \/ s = activeConnections[i][m].media)
                   => /\ sockets'[s].state \in {"closing", "closed"}
                      /\ sockets[s].state \in {"connecting", "open"}
                            => sockets'[s].state = "closing"]_vars

\* the entry of m1 is gone and both of its sockets are closing
C11_Witness ==
    /\ ~activeConnections["A"]["m1"].present
    /\ \E s \in DOMAIN sockets : \E d \in DOMAIN sockets :
          /\ sockets[s].kind = "signaling" /\ sockets[s].meeting = "m1"
          /\ sockets[d].kind = "media" /\ sockets[d].sig = s
          /\ sockets[s].state = "closing"
          /\ sockets[d].state = "closing"

\* C12: in every reachable state, a meeting.rtms_stopped for a meeting
\* without an entry changes neither the registry nor any socket; a second
\* stop for the same meeting changes nothing the first has not changed; and
\* a stop leaves the entry and the sockets of every other meeting as they are.
C12_DeregisterIdempotent ==
    \A i \in Instances : \A m \in Meetings :
        LET reg1 == SessionStopRegistry(activeConnections, i, m)
            socks1 == SessionStopSockets(sockets, activeConnections, i, m)
            reg2 == SessionStopRegistry(reg1, i, m)
            socks2 == SessionStopSockets(socks1, reg1, i, m)
        IN  /\ ~activeConnections[i][m].present
                  => reg1 = activeConnections /\ socks1 = sockets
            /\ reg2 = reg1
            /\ socks2 = socks1
            /\ \A j \in Instances : \A n \in Meetings :
                  <<j, n>> # <<i, m>> => reg1[j][n] = activeConnections[j][n]
            /\ \A s \in DOMAIN sockets :
                  (sockets[s].meeting # m \/ sockets[s].inst # i)
                  => socks1[s] = sockets[s]

\* m1 was stopped (no entry, its socket closing) while m2 has its entry and
\* an open signaling socket
C12_Witness ==
    /\ ~activeConnections["A"]["m1"].present
    /\ \E s \in DOMAIN sockets :
          sockets[s].meeting = "m1" /\ sockets[s].state = "closing"
    /\ activeConnections["A"]["m2"].present
    /\ \E s \in DOMAIN sockets :
          /\ sockets[s].meeting = "m2"
          /\ sockets[s].state = "open"
          /\ activeConnections["A"]["m2"].signaling = s

\* C13 as stated: a message handler that completes on a socket of a meeting
\* after meeting.rtms_stopped has closed it creates no socket, sends nothing
\* and publishes nothing.
C13_NothingAfterDeregister ==
    [][\A k \in DOMAIN pending :
          (/\ Handled(k)
           /\ sockets[pending[k].sock].state \in {"closing", "closed"}
           /\ ~activeConnections[sockets[pending[k].sock].inst]
                                [sockets[pending[k].sock].meeting].present)
          => sockets' = sockets /\ published' = published]_vars

\* C14: the entry of a meeting comes into being only in a step that creates
\* the signaling socket of a session start for that meeting and stores it in
\* the signaling slot; no message handler and no close creates one.
C14_EntryOnlyFromSessionStart ==
    [][\A i \in Instances : \A m \in Meetings :
          (~activeConnections[i][m].present /\ activeConnections'[i][m].present)
          => /\ Len(sockets') = Len(sockets) + 1
             /\ sockets'[Len(sockets')].kind = "signaling"
             /\ sockets'[Len(sockets')].inst = i
             /\ sockets'[Len(sockets')].meeting = m
             /\ activeConnections'[i][m] =
                   [present |-> TRUE, signaling |-> Len(sockets'), media |-> 0]]_vars

\* after m1 was stopped, the pending handshake success of its signaling
\* socket was handled: a media socket was created and m1 still has no entry
C14_Witness ==
    /\ ~activeConnections["A"]["m1"].present
    /\ \E s \in DOMAIN sockets :
          /\ sockets[s].kind = "media" /\ sockets[s].meeting = "m1"
          /\ sockets[s].state = "connecting"
          /\ sockets[sockets[s].sig].state = "closing"
          /\ lastHandled.sock = sockets[s].sig
          /\ lastHandled.frame.msg_type = 2

(* --------------------------- start properties -------------------------- *)
\* C15 as stated: in every reachable state, a meeting.rtms_started whose
\* server_urls resolve to no usable URL (null, or an empty string) creates no
\* socket and no entry, and one whose server_urls resolve to a URL creates a
\* connecting signaling socket for that URL and stores it in the signaling
\* slot of the meeting.
C15_StartOpensResolvedUrl ==
    \A c \in StartCandidates :
        LET r == resolveWsUrl(c)
            socks1 == connectToSignalingSockets(sockets, "A", "m1", "st1", c)
            reg1 == SessionStartRegistry(activeConnections, sockets, "A", "m1", c)
        IN  IF r.none \/ r.url = ""
            THEN socks1 = sockets /\ reg1 = activeConnections
            ELSE /\ socks1 =
                       Append(sockets,
                              [kind |-> "signaling", inst |-> "A", meeting |-> "m1",
                               stream |-> "st1", url |-> r.url,
                               state |-> "connecting", sig |-> 0, sent |-> <<>>])
                 /\ reg1["A"]["m1"].present
                 /\ reg1["A"]["m1"].signaling = Len(sockets) + 1

\* C16: resolveWsUrl returns a non-empty string itself, the `all` of an
\* object that has a non-empty one, the first element of a non-empty array,
\* and null for null, the empty string, a number, an empty array, and an
\* object whose `all` is absent, empty or throws when read.
C16_ResolveByShape ==
    resolved.called
    => LET c == resolved.candidate
           r == resolved.result
       IN  /\ (c.shape = "string" /\ c.text # "")
                 => r = [none |-> FALSE, url |-> c.text]
           /\ (c.shape = "object" /\ c.allKind = "value" /\ c.all # "")
                 => r = [none |-> FALSE, url |-> c.all]
           /\ (c.shape = "list" /\ c.items # <<>>)
                 => r = [none |-> FALSE, url |-> c.items[1]]
           /\ (\/ c.shape = "null"
               \/ c.shape = "number"
               \/ c.shape = "string" /\ c.text = ""
               \/ c.shape = "list" /\ c.items = <<>>
               \/ c.shape = "object" /\ ~(c.allKind = "value" /\ c.all # ""))
                 => r = [none |-> TRUE, url |-> ""]

\* resolveWsUrl was called with an array of two URLs and returned the first
C16_Witness ==
    /\ resolved.called
    /\ resolved.candidate.shape = "list"
    /\ resolved.candidate.items = <<"wss://b.example/2", "wss://a.example/1">>
    /\ resolved.result = [none |-> FALSE, url |-> "wss://b.example/2"]

(* --------------------------- frame properties -------------------------- *)
\* C17: a step that handles a frame parseWsJson throws on, on a signaling or
\* a media socket, changes no socket (none is closed, nothing is sent), no
\* registry entry, no recency buffer, no Set of SSE clients and no client's
\* stream, and publishes nothing; a transcript that the same socket receives
\* next is published.
C17_MalformedFrameDropped ==
    [][/\ (framesIn' = framesIn + 1 /\ ~lastHandled'.frame.ok)
          => /\ sockets' = sockets
             /\ activeConnections' = activeConnections
             /\ recentTranscripts' = recentTranscripts
             /\ sseClients' = sseClients
             /\ clients' = clients
             /\ inbox' = inbox
             /\ published' = published
       /\ (/\ framesIn' = framesIn + 1
           /\ ~lastHandled.frame.ok
           /\ lastHandled'.sock = lastHandled.sock
           /\ lastHandled'.frame.ok
           /\ lastHandled'.frame.msg_type = 17
           /\ lastHandled'.frame.data # "")
          => Len(published'["A"]) = Len(published["A"]) + 1]_vars

\* the media socket, which is ready and has published a transcript, has just
\* got a frame it could not parse, and is open
C17_Witness ==
    \E s \in DOMAIN sockets :
        /\ sockets[s].kind = "media"
        /\ sockets[s].state = "open"
        /\ s \in ready
        /\ Len(published["A"]) = 1
        /\ lastHandled.sock = s
        /\ ~lastHandled.frame.ok

\* C18: the close of a signaling socket empties the signaling slot of its
\* meeting's entry and leaves the media slot as it is; the close of a media
\* socket empties the media slot and leaves the signaling slot as it is;
\* neither creates or removes the entry, and the entries of all other
\* meetings stay as they are.
C18_CloseRemovesOwnSlotOnly ==
    [][\A s \in DOMAIN sockets :
          (sockets[s].state # "closed" /\ sockets'[s].state = "closed")
          => LET i == sockets[s].inst
                 m == sockets[s].meeting
                 before == activeConnections[i][m]
                 after == activeConnections'[i][m]
             IN  /\ after.present = before.present
                 /\ sockets[s].kind = "signaling"
                       => after.signaling = 0 /\ after.media = before.media
                 /\ sockets[s].kind = "media"
                       => after.media = 0 /\ after.signaling = before.signaling
                 /\ \A j \in Instances : \A n \in Meetings :
                       <<j, n>> # <<i, m>>
                       => activeConnections'[j][n] = activeConnections[j][n]]_vars

\* the signaling socket of m1 has closed: its slot is empty, the media slot
\* still holds the media socket, and m2 has its entry
C18_Witness ==
    /\ activeConnections["A"]["m1"].present
    /\ activeConnections["A"]["m1"].signaling = 0
    /\ activeConnections["A"]["m1"].media \in DOMAIN sockets
    /\ \E s \in DOMAIN sockets :
          /\ sockets[s].kind = "signaling" /\ sockets[s].meeting = "m1"
          /\ sockets[s].state = "closed"
          /\ s \notin errorLog
    /\ activeConnections["A"]["m2"].present
    /\ activeConnections["A"]["m2"].signaling \in DOMAIN sockets

\* C19: a step in which onerror of a socket logs an error leaves that socket
\* closed and the slot of its kind empty in its meeting's entry; every other
\* socket, the entries of all other meetings and the transcript distribution
\* stay as they are.
C19_ErrorClosesAndFreesSlot ==
    [][\A s \in DOMAIN sockets :
          (s \notin errorLog /\ s \in errorLog')
          => LET i == sockets[s].inst
                 m == sockets[s].meeting
             IN  /\ sockets'[s].state = "closed"
                 /\ sockets[s].kind = "signaling"
                       => activeConnections'[i][m].signaling = 0
                 /\ sockets[s].kind = "media"
                       => activeConnections'[i][m].media = 0
                 /\ \A d \in DOMAIN sockets : d # s => sockets'[d] = sockets[d]
                 /\ \A j \in Instances : \A n \in Meetings :
                       <<j, n>> # <<i, m>>
                       => activeConnections'[j][n] = activeConnections[j][n]
                 /\ UNCHANGED bcastVars]_vars

\* the media socket of m1 failed while it was in the media slot: it is closed
\* and the slot is empty; the signaling socket of m1 and that of m2 are open
\* and in their slots
C19_Witness ==
    \E s \in DOMAIN sockets :
        /\ s \in errorLog
        /\ sockets[s].kind = "media" /\ sockets[s].meeting = "m1"
        /\ sockets[s].state = "closed"
        /\ activeConnections["A"]["m1"].media = 0
        /\ activeConnections["A"]["m1"].signaling = sockets[s].sig
        /\ sockets[sockets[s].sig].state = "open"
        /\ activeConnections["A"]["m2"].signaling \in DOMAIN sockets
        /\ sockets[activeConnections["A"]["m2"].signaling].state = "open"

\* C20 as stated: a transcript is published only by a media socket that has
\* handled a data-handshake success before.
C20_PublishOnlyWhenReady ==
    [][\A i \in Instances :
          PublishStep(i) => lastHandled'.sock \in ready]_vars

(* ------------------------- repeated events ----------------------------- *)
DupSockets == 3
DupFrames == 2

\* frames of the repetition scenario: both handshakes succeed
DupFrameSet(kind) ==
    IF kind = "signaling"
    THEN {SignalingHandshakeResp(0, u) : u \in MediaUrls}
    ELSE {DataHandshakeResp(0)}

\* one meeting whose session start and whose handshake responses may arrive
\* more than once, the frames arriving as text
NextDup ==
    \/ SessionStart("A", "m1", "st1", SigUrls, DupSockets) /\ NoHistory
    \/ \E s \in DOMAIN sockets : OnOpen(s) /\ NoHistory
    \/ \E s \in DOMAIN sockets :
          \E f \in DupFrameSet(sockets[s].kind) :
             ReceiveText(s, f, DupFrames, DupSockets) /\ TrackReady(s, f)
    \/ \E s \in DOMAIN sockets : OnClose(s) /\ NoHistory
    \/ SessionStop("A", "m1") /\ NoHistory

SpecDup == Init /\ [][NextDup]_vars

\* the media sockets a signaling socket has opened
MediaOpenedBy(s) ==
    {d \in DOMAIN sockets : sockets[d].kind = "media" /\ sockets[d].sig = s}

\* C21: a signaling channel opens at most one media channel in its lifetime:
\* a handshake success that arrives when the channel has already opened its
\* media channel opens no further one
C21_OneMediaPerSignaling ==
    \A s \in DOMAIN sockets :
       sockets[s].kind = "signaling" => Cardinality(MediaOpenedBy(s)) <= 1

\* the open sockets of one kind that belong to meeting m of instance i
OpenSockets(i, m, kind) ==
    {s \in DOMAIN sockets :
        /\ sockets[s].inst = i
        /\ sockets[s].meeting = m
        /\ sockets[s].kind = kind
        /\ sockets[s].state = "open"}

\* C22: a meeting has at most one open signaling socket and at most one open
\* media socket, each open socket is the one its registry entry holds, and
\* a meeting without an entry (after deregister) has no open socket
C22_OpenSocketsAreRegistered ==
    \A i \in Instances : \A m \in Meetings :
       /\ Cardinality(OpenSockets(i, m, "signaling")) <= 1
       /\ Cardinality(OpenSockets(i, m, "media")) <= 1
       /\ \A s \in OpenSockets(i, m, "signaling") :
             /\ activeConnections[i][m].present
             /\ activeConnections[i][m].signaling = s
       /\ \A s \in OpenSockets(i, m, "media") :
             /\ activeConnections[i][m].present
             /\ activeConnections[i][m].media = s

(* ------------------------ registry history ----------------------------- *)
\* C23: a registry entry holds a media handle only if a signaling handle of
\* the same meeting was registered before: the handle is a media socket of
\* that meeting, and a signaling socket of that meeting (which
\* connectToSignalingWebSocket registered when it created it) is older
C23_MediaHandleAfterSignaling ==
    \A i \in Instances : \A m \in Meetings :
       (activeConnections[i][m].present /\ activeConnections[i][m].media # 0)
       => /\ activeConnections[i][m].media \in DOMAIN sockets
          /\ sockets[activeConnections[i][m].media].kind = "media"
          /\ sockets[activeConnections[i][m].media].inst = i
          /\ sockets[activeConnections[i][m].media].meeting = m
          /\ \E s \in 1 .. (activeConnections[i][m].media - 1) :
                /\ sockets[s].kind = "signaling"
                /\ sockets[s].inst = i
                /\ sockets[s].meeting = m

\* an entry holds a media handle while its signaling slot is empty again
C23_Witness ==
    \E m \in Meetings :
       /\ activeConnections["A"][m].present
       /\ activeConnections["A"][m].media # 0
       /\ activeConnections["A"][m].signaling = 0

(* --------------------------- subscriptions ----------------------------- *)
SubSockets == 2
SubFrames == 4
SubClients == 2

\* frames of the subscription scenario: the signaling handshake succeeds,
\* the media socket receives transcripts with increasing timestamps
SubFrameSet(kind) ==
    IF kind = "signaling"
    THEN {SignalingHandshakeResp(0, u) : u \in MediaUrls}
    ELSE {TranscriptData("u1", "Alice", "hello", framesIn + 1)}

\* one meeting whose transcripts are published while SSE clients subscribe,
\* unsubscribe and break, on a bus that does not deliver a message to the
\* channel that posted it
NextSub ==
    \/ SessionStart("A", "m1", "st1", SigUrls, SubSockets) /\ NoHistory
    \/ \E s \in DOMAIN sockets : OnOpen(s) /\ NoHistory
    \/ \E s \in DOMAIN sockets :
          \E f \in SubFrameSet(sockets[s].kind) :
             /\ ReceiveText(s, f, SubFrames, SubSockets)
             /\ inbox'["A"] = inbox["A"]
             /\ NoHistory
    \/ Subscribe("A", SubClients) /\ NoHistory
    \/ \E c \in DOMAIN clients : Unsubscribe(c) /\ NoHistory
    \/ \E c \in DOMAIN clients : SinkBreak(c) /\ NoHistory

SpecSub == Init /\ [][NextSub]_vars

\* C24: a subscribe adds the new client to the Set of its instance and sends
\* it the connection confirmation and nothing else: none of the transcripts
\* in the recency buffer is replayed to it, and the buffer and the other
\* clients stay as they are
C24_SubscribeSendsNoReplay ==
    [][Len(clients') > Len(clients)
       => /\ Len(clients') = Len(clients) + 1
          /\ clients'[Len(clients')].received =
                <<[event |-> "connected", data |-> [msg_type |-> 0]]>>
          /\ ~clients'[Len(clients')].broken
          /\ sseClients' =
                [sseClients EXCEPT ![clients'[Len(clients')].inst] =
                    Append(@, Len(clients'))]
          /\ \A c \in DOMAIN clients : clients'[c] = clients[c]
          /\ recentTranscripts' = recentTranscripts
          /\ published' = published]_vars

\* a client that subscribed when the buffer held transcripts: it has been
\* sent the confirmation only
C24_Witness ==
    \E c \in DOMAIN clients :
       /\ c \in Range(sseClients["A"])
       /\ ~clients[c].broken
       /\ clients[c].received = <<SseConnected>>
       /\ Len(recentTranscripts["A"]) >= 2

\* the transcripts published on instance i from the n-th on, as SSE items
PublishedFrom(i, n) ==
    [j \in 1 .. (Len(published[i]) - n + 1) |->
        TranscriptItem(published[i][n + j - 1])]

\* C25: a client whose stream accepts data is sent one item for every
\* transcript published on its instance while it is in the Set, in publish
\* order (its stream is the confirmation followed by the items of the
\* transcripts published since it subscribed), no other step sends it
\* anything, and a client that has left the Set is sent nothing; a client
\* whose stream throws is sent nothing
C25_OneItemPerPublishWhileSubscribed ==
    /\ [](\A c \in DOMAIN clients :
             (c \in Range(sseClients["A"]) /\ ~clients[c].broken)
             => \E n \in 1 .. (Len(published["A"]) + 1) :
                   clients[c].received =
                      <<SseConnected>> \o PublishedFrom("A", n))
    /\ [][\A c \in DOMAIN clients :
             IF c \notin Range(sseClients["A"])
             THEN clients'[c] = clients[c]
             ELSE IF clients[c].broken
             THEN \/ clients'[c] = clients[c]
                  \/ c \notin Range(sseClients'["A"])
             ELSE IF PublishStep("A")
             THEN clients'[c] =
                     Got(c, TranscriptItem(published'["A"][Len(published'["A"])]))
             ELSE \/ clients'[c] = clients[c]
                  \/ c \notin Range(sseClients'["A"])
                  \/ clients'[c] = [clients[c] EXCEPT !.broken = TRUE]]_vars

\* a client that subscribed after the first publish and has been sent the two
\* transcripts published since, and a client that has left the Set
C25_Witness ==
    /\ Len(published["A"]) = 3
    /\ \E c \in DOMAIN clients :
          /\ c \in Range(sseClients["A"])
          /\ ~clients[c].broken
          /\ Len(clients[c].received) = 3
    /\ \E c \in DOMAIN clients : c \notin Range(sseClients["A"])

(* ------------------------------ polling -------------------------------- *)
PollSockets == 2
PollFrames == 3
PollEvents == 3
PollClock == 3

\* c.req.query('since'): absent, or the decimal text of an integer
NoSince == [given |-> FALSE, n |-> 0]
Since(n) == [given |-> TRUE, n |-> n]
Queries == {NoSince} \cup {Since(n) : n \in 0 .. PollClock}

\* parseInt(text): NaN for undefined, the integer for its decimal text
parseInt(q) == [nan |-> ~q.given, n |-> q.n]

\* parseInt(...) || lastPollTimestamp: NaN and 0 are falsy
SinceOrLastPoll(q, last) ==
    IF parseInt(q).nan \/ parseInt(q).n = 0 THEN last ELSE parseInt(q).n

\* Date.now() read by a handler of instance i: not before the last poll
Now(i) == lastPollTimestamp[i] .. PollClock

\* app.get('/api/poll-transcripts'): the buffered transcripts newer than the
\* cursor, the time of this poll, and the size of the buffer
Poll(i, q, now) ==
    /\ polled' =
          [called |-> TRUE, inst |-> i, query |-> q,
           buffer |-> getRecentTranscripts(i),
           transcripts |->
              SelectSeq(getRecentTranscripts(i),
                        LAMBDA t : t.timestamp > SinceOrLastPoll(q, lastPollTimestamp[i])),
           timestamp |-> now,
           total_stored |-> Len(getRecentTranscripts(i))]
    /\ lastPollTimestamp' = [lastPollTimestamp EXCEPT ![i] = now]
    /\ UNCHANGED <<protoVars, bcastVars, historyVars, held, restVars>>

\* result.response of performGroqInference
GroqResponses == {"answer"}

\* the responseTranscript of app.post('/api/trigger-groq'), without its
\* tools, routing, original_message and citations
ResponseTranscript(response, now) ==
    [user_id |-> "groq-ai", user_name |-> "Groq AI Assistant",
     data |-> response, timestamp |-> now]

\* app.post('/api/trigger-groq') from performGroqInference on, for a request
\* that is not a duplicate: the response
\* transcript is stored in the recency buffer and sent to the SSE clients of
\* the instance, each send in its own try/catch; nothing is posted to the bus
TriggerGroq(i, response, now, maxEvents) ==
    /\ Len(recentTranscripts[i]) < maxEvents
    /\ recentTranscripts' =
          [recentTranscripts EXCEPT
              ![i] = addToRecentTranscripts(@, ResponseTranscript(response, now))]
    /\ clients' = SseLoopGuarded(clients, sseClients[i],
                                 SseTranscript([content |-> ResponseTranscript(response, now)]))
    /\ UNCHANGED <<sseClients, inbox, lastRelay, published>>
    /\ UNCHANGED protoVars

REQUEST_DEDUP_WINDOW_MS == 3000
CleanupAgeMs == 10000

\* a duplicate test that also rejects a request at the end of the window
IsDuplicateRequestInclusive(reqs, key, now) ==
    reqs[key] # 0 /\ (now - reqs[key]) <= REQUEST_DEDUP_WINDOW_MS

\* lastRequestTime && (now - lastRequestTime) < REQUEST_DEDUP_WINDOW_MS; a
\* key the Map does not hold has time 0 here (undefined in the code)
IsDuplicateRequest(reqs, key, now) ==
    reqs[key] # 0 /\ (now - reqs[key]) < REQUEST_DEDUP_WINDOW_MS

\* recentRequests.set(requestKey, now), then the entries older than 10
\* seconds are deleted
TrackRequest(reqs, key, now) ==
    [k \in RequestKeys |->
        LET time == IF k = key THEN now ELSE reqs[k]
        IN  IF now - time > CleanupAgeMs THEN 0 ELSE time]

\* the time each key was last processed, as the history of requests has it
ProcessedAt(key) == IF lastTrigger.called THEN lastTrigger.processedAt[key] ELSE 0

\* app.post('/api/trigger-groq') with a transcript in the body: a request
\* whose key was processed less than 3 seconds ago is answered as a duplicate
\* and nothing else happens; any other request is tracked and processed
TriggerGroqRequest(i, key, response, now, maxEvents) ==
    /\ IF IsDuplicateRequest(recentRequests[i], key, now)
       THEN /\ UNCHANGED recentRequests
            /\ UNCHANGED <<protoVars, bcastVars>>
       ELSE /\ recentRequests' =
                  [recentRequests EXCEPT ![i] = TrackRequest(@, key, now)]
            /\ TriggerGroq(i, response, now, maxEvents)
    /\ lastTrigger' =
          [called |-> TRUE, inst |-> i, key |-> key, now |-> now,
           duplicate |-> IsDuplicateRequest(recentRequests[i], key, now),
           processedAt |->
              [k \in RequestKeys |->
                  IF k = key /\ ~IsDuplicateRequest(recentRequests[i], key, now)
                  THEN now ELSE ProcessedAt(k)]]

\* a caller keeps the array getRecentTranscripts returns: the array object
\* of the buffer itself, not a copy
GetRecent(i) ==
    /\ held' = [taken |-> TRUE, inst |-> i, shared |-> TRUE,
                returned |-> getRecentTranscripts(i),
                elements |-> getRecentTranscripts(i)]
    /\ UNCHANGED <<protoVars, bcastVars, historyVars, lastPollTimestamp, polled>>
    /\ UNCHANGED restVars

\* addToRecentTranscripts as the holder of array h sees it: unshift changes
\* the array object in place; slice(0, 50) makes a new array for the buffer
\* and leaves the old object, now 51 long, to its holder
addToRecentTranscriptsHeld(h, i, transcript) ==
    IF h.taken /\ h.inst = i /\ h.shared
    THEN [h EXCEPT !.elements = <<transcript>> \o @,
                   !.shared = (Len(h.elements) + 1 <= BufferCapacity)]
    ELSE h

\* the step leaves the poll cursor and the last response as they are; the
\* held array changes with the buffer of instance i
TrackHeld(i) ==
    /\ held' = IF recentTranscripts'[i] # recentTranscripts[i]
               THEN addToRecentTranscriptsHeld(held, i, Head(recentTranscripts'[i]))
               ELSE held
    /\ UNCHANGED <<historyVars, lastPollTimestamp, polled, openVars>>

\* frames of the polling scenario
PollFrameSet(kind) ==
    IF kind = "signaling"
    THEN {SignalingHandshakeResp(0, u) : u \in MediaUrls}
    ELSE {TranscriptData("u1", "Alice", "hello", framesIn + 1)}

\* one meeting whose transcripts are published, the AI responses stored by
\* the trigger endpoint, and callers that poll or read the buffer
NextPoll ==
    \/ SessionStart("A", "m1", "st1", SigUrls, PollSockets) /\ NoHistory
    \/ \E s \in DOMAIN sockets : OnOpen(s) /\ NoHistory
    \/ \E s \in DOMAIN sockets :
          \E f \in PollFrameSet(sockets[s].kind) :
             /\ ReceiveText(s, f, PollFrames, PollSockets)
             /\ inbox'["A"] = inbox["A"]
             /\ TrackHeld("A")
             /\ UNCHANGED triggerVars
    \/ \E q \in Queries : \E now \in Now("A") : Poll("A", q, now)
    \/ \E k \in {"hello_Alice"} : \E r \in GroqResponses : \E now \in Now("A") :
          TriggerGroqRequest("A", k, r, now, PollEvents) /\ TrackHeld("A")
    \/ GetRecent("A")

SpecPoll == Init /\ [][NextPoll]_vars

\* C26: a poll with an integer `since` (0 included) answers with exactly the
\* buffered transcripts whose timestamp is greater than `since`, and with the
\* server's time of the poll
C26_PollReturnsNewerThanSince ==
    (polled.called /\ polled.query.given)
    => /\ polled.transcripts =
             SelectSeq(polled.buffer, LAMBDA t : t.timestamp > polled.query.n)
       /\ polled.timestamp = lastPollTimestamp[polled.inst]

\* C29: the recency buffer changes only in a step in which a media socket
\* handles a transcript frame and publishes it, and every buffered event is
\* a transcript a media socket published
C29_BufferOnlyFromMediaPublish ==
    /\ [][\A i \in Instances :
             recentTranscripts'[i] # recentTranscripts[i]
             => /\ PublishStep(i)
                /\ lastHandled'.sock \in DOMAIN sockets
                /\ sockets[lastHandled'.sock].kind = "media"
                /\ IsTranscript(lastHandled'.frame)
                /\ recentTranscripts'[i] =
                      addToRecentTranscripts(recentTranscripts[i],
                                             TranscriptContent(lastHandled'.frame))]_vars
    /\ [](\A i \in Instances : \A n \in DOMAIN recentTranscripts[i] :
             recentTranscripts[i][n] \in Range(published[i]))

\* C30: the array a caller obtained from getRecentTranscripts keeps the
\* length and the contents it had when it was returned, and never has more
\* than 50 entries
C30_ReturnedArrayIsSnapshot ==
    held.taken
    => /\ held.elements = held.returned
       /\ Len(held.elements) <= 50

(* ----------------------------- end to end ------------------------------ *)
E2ESockets == 2
E2EFrames == 5

\* frames of the end-to-end scenario: both handshakes succeed, keep-alives,
\* and the transcript of speaker u1
E2EFrameSet(kind) ==
    IF kind = "signaling"
    THEN {SignalingHandshakeResp(0, "wss://media.example/xyz"), KeepAliveReq(1234)}
    ELSE {DataHandshakeResp(0), KeepAliveReq(1234),
          TranscriptData("u1", "Alice", "hello", 1234)}

\* one session from its start to its first transcripts, the frames arriving
\* as text, on a bus that does not deliver a message to the channel that
\* posted it
NextE2E ==
    \/ SessionStart("A", "m1", "st1", StringCandidate("wss://sig.example/abc"),
                    E2ESockets) /\ NoHistory
    \/ \E s \in DOMAIN sockets : OnOpen(s) /\ NoHistory
    \/ \E s \in DOMAIN sockets :
          \E f \in E2EFrameSet(sockets[s].kind) :
             /\ ReceiveText(s, f, E2EFrames, E2ESockets)
             /\ inbox'["A"] = inbox["A"]
             /\ TrackReady(s, f)

SpecE2E == Init /\ [][NextE2E]_vars

\* the session has received three frames: the signaling handshake success
\* that opened the media socket, a data-handshake success, and last the
\* transcript of u1
E2EScenario ==
    /\ Len(sockets) = 2
    /\ sockets[1].kind = "signaling"
    /\ sockets[1].url = "wss://sig.example/abc"
    /\ sockets[2].kind = "media"
    /\ sockets[2].url = "wss://media.example/xyz"
    /\ framesIn = 3
    /\ ready = {2}
    /\ lastHandled =
          [sock |-> 2,
           frame |-> [ok |-> TRUE, msg_type |-> 17, status_code |-> 0,
                      media_url |-> "", timestamp |-> 1234, user_id |-> "u1",
                      user_name |-> "Alice", data |-> "hello"]]

\* C27: after the end-to-end scenario the signaling socket has sent its
\* handshake request and exactly one client-ready-ack, and the recency
\* buffer holds exactly one event, with user u1, name Alice, text hello and
\* timestamp 1234
C27_EndToEnd ==
    E2EScenario
    => /\ CountType(sockets[1].sent, 1) = 1
       /\ CountType(sockets[1].sent, 7) = 1
       /\ sockets[1].sent[Len(sockets[1].sent)] =
             [msg_type |-> 7, rtms_stream_id |-> "st1"]
       /\ getRecentTranscripts("A") =
             <<[user_id |-> "u1", user_name |-> "Alice", data |-> "hello",
                timestamp |-> 1234]>>

C27_Witness == E2EScenario

(* ----------------------- independence of meetings ---------------------- *)
IndepSockets == 3
IndepFrames == 2

\* frames of the independence scenario: handshakes that succeed or are
\* rejected, and frames that cannot be parsed
IndepFrameSet(kind) ==
    IF kind = "signaling"
    THEN {SignalingHandshakeResp(0, u) : u \in MediaUrls}
         \cup {SignalingHandshakeResp(1, ""), MalformedFrame}
    ELSE {DataHandshakeResp(0), DataHandshakeResp(1), MalformedFrame}

\* two meetings on one instance with every event of a session: start, stop,
\* frames (arriving as text), close and error; each meeting is started once
NextIndep ==
    \/ \E m \in Meetings :
          /\ \A s \in DOMAIN sockets : sockets[s].meeting # m
          /\ SessionStart("A", m, StreamOf(m), SigUrls, IndepSockets)
          /\ NoHistory
    \/ \E s \in DOMAIN sockets : OnOpen(s) /\ NoHistory
    \/ \E s \in DOMAIN sockets :
          \E f \in IndepFrameSet(sockets[s].kind) :
             ReceiveText(s, f, IndepFrames, IndepSockets) /\ NoHistory
    \/ \E s \in DOMAIN sockets : OnClose(s) /\ NoHistory
    \/ \E s \in DOMAIN sockets : OnError(s) /\ UNCHANGED <<ready, resolved, pollVars, restVars>>
    \/ \E m \in Meetings : SessionStop("A", m) /\ NoHistory

SpecIndep == Init /\ [][NextIndep]_vars

\* the step changes the registry entry of meeting m, changes one of its
\* sockets, or creates a socket for it
Affected(m) ==
    \/ activeConnections'["A"][m] # activeConnections["A"][m]
    \/ \E s \in DOMAIN sockets' :
          /\ sockets'[s].meeting = m
          /\ s \in DOMAIN sockets => sockets'[s] # sockets[s]

DedupEvents == 3
DedupClients == 1

\* Date.now() of the requests of the deduplication scenario: times around
\* the ends of the 3 second window and of the 10 second cleanup
DedupTimes == {1000, 3999, 4000, 6999, 7000, 14001}

\* requests of the trigger endpoint on one instance with an SSE client, the
\* clock never running backwards
NextDedup ==
    \/ \E k \in RequestKeys : \E r \in GroqResponses : \E now \in DedupTimes :
          /\ lastTrigger.called => now >= lastTrigger.now
          /\ TriggerGroqRequest("A", k, r, now, DedupEvents)
          /\ UNCHANGED <<historyVars, pollVars, openVars>>
    \/ Subscribe("A", DedupClients) /\ NoHistory

SpecDedup == Init /\ [][NextDedup]_vars

\* C40: a request whose key was last processed less than 3 seconds before
\* is answered as a duplicate and changes neither the recency buffer nor any
\* client's stream nor the bus nor the Map of requests; a request whose key
\* was last processed 3 seconds or more before (or never) is processed: its
\* response transcript is put in front of the buffer and sent to the SSE
\* clients, and the Map holds its time
C40_DuplicateWithinWindowOnly ==
    [][lastTrigger' # lastTrigger
       => LET key == lastTrigger'.key
              now == lastTrigger'.now
              last == ProcessedAt(key)
          IN  IF last # 0 /\ now - last < 3000
              THEN /\ lastTrigger'.duplicate
                   /\ recentTranscripts' = recentTranscripts
                   /\ clients' = clients
                   /\ inbox' = inbox
                   /\ recentRequests' = recentRequests
              ELSE /\ ~lastTrigger'.duplicate
                   /\ Len(recentTranscripts'["A"]) = Len(recentTranscripts["A"]) + 1
                   /\ Head(recentTranscripts'["A"]) =
                         [user_id |-> "groq-ai", user_name |-> "Groq AI Assistant",
                          data |-> "answer", timestamp |-> now]
                   /\ \A c \in Range(sseClients["A"]) :
                         Len(clients'[c].received) = Len(clients[c].received) + 1
                   /\ recentRequests'["A"][key] = now]_vars

\* a key was processed at 1000 and, the window over, again at 4000; asked
\* for once more 2999 ms later it is answered as a duplicate
C40_Witness ==
    /\ lastTrigger.called
    /\ lastTrigger.duplicate
    /\ lastTrigger.now = 6999
    /\ Len(recentTranscripts["A"]) = 2
    /\ recentTranscripts["A"][2].timestamp = 1000
    /\ recentTranscripts["A"][1].timestamp = 4000
    /\ lastTrigger.processedAt["bye_Alice"] = 0

(* ---------------------------- open handlers ---------------------------- *)
SignSockets == 3
SignFrames == 2

\* the server in an environment with or without ZOOM_CLIENT_SECRET
InitSign == InitModules /\ secretSet \in BOOLEAN

\* the open event of a socket: readyState OPEN; the async onopen handler
\* starts and awaits generateSignature, other events are handled meanwhile
OpenEvent(s) ==
    /\ s \in DOMAIN sockets
    /\ sockets[s].state = "connecting"
    /\ sockets' = [sockets EXCEPT ![s].state = "open"]
    /\ signing' = signing \cup {s}
    /\ UNCHANGED <<activeConnections, pending, lastHandled, framesIn>>
    /\ UNCHANGED bcastVars
    /\ UNCHANGED <<secretSet, alive>>

\* createHmacSha256 with the key of the environment: encoder.encode of an
\* absent secret is the empty key, which crypto.subtle.importKey rejects with
\* a DataError or, where the platform accepts it, signs with
SignOutcomes(hasSecret) ==
    IF hasSecret THEN {"signed"} ELSE {"DataError", "signed"}

\* the handshake request as signed with the key of the environment
HandshakeReqKeyed(so, hasSecret) ==
    IF hasSecret
    THEN HandshakeReq(so)
    ELSE [HandshakeReq(so) EXCEPT
             !.signature = createHmacSha256("", <<ZOOM_CLIENT_ID, so.meeting, so.stream>>)]

\* generateSignature settles and onopen goes on to ws.send(handshake). The
\* handler has no try/catch: a rejected signature, or a send on a socket that
\* is no longer OPEN, rejects the handler's promise, and the platform either
\* ends the process on the unhandled rejection (exits) or only reports it
Signed(s, outcome, exits) ==
    /\ s \in signing
    /\ outcome \in SignOutcomes(secretSet)
    /\ signing' = signing \ {s}
    /\ sockets' = IF outcome = "signed"
                  THEN Send(sockets, s, HandshakeReqKeyed(sockets[s], secretSet))
                  ELSE sockets
    /\ alive' = IF outcome = "signed" /\ sockets[s].state = "open"
                THEN alive
                ELSE alive /\ ~exits
    /\ UNCHANGED <<activeConnections, pending, lastHandled, framesIn>>
    /\ UNCHANGED bcastVars
    /\ UNCHANGED secretSet

\* frames of the open scenario: handshake successes and keep-alives
SignFrameSet(kind) ==
    IF kind = "signaling"
    THEN {SignalingHandshakeResp(0, u) : u \in MediaUrls} \cup {KeepAliveReq(1234)}
    ELSE {DataHandshakeResp(0), KeepAliveReq(1234)}

\* two meetings, each started once, whose open handlers await the signature
\* while frames arrive (as text) and sockets close; a process that has ended
\* handles nothing
NextSign ==
    \/ \E m \in Meetings :
          /\ alive
          /\ \A s \in DOMAIN sockets : sockets[s].meeting # m
          /\ SessionStart("A", m, StreamOf(m), SigUrls, SignSockets)
          /\ NoHistory
    \/ \E s \in DOMAIN sockets :
          /\ alive
          /\ OpenEvent(s)
          /\ UNCHANGED <<historyVars, pollVars, triggerVars>>
    \/ \E s \in DOMAIN sockets : \E outcome \in {"signed", "DataError"} :
          \E exits \in BOOLEAN :
             /\ alive
             /\ Signed(s, outcome, exits)
             /\ UNCHANGED <<historyVars, pollVars, triggerVars>>
    \/ \E s \in DOMAIN sockets :
          \E f \in SignFrameSet(sockets[s].kind) :
             /\ alive
             /\ ReceiveText(s, f, SignFrames, SignSockets)
             /\ NoHistory
    \/ \E s \in DOMAIN sockets : alive /\ OnClose(s) /\ NoHistory

SpecSign == InitSign /\ [][NextSign]_vars

\* the handshake request type of a socket
HandshakeType(so) == IF so.kind = "signaling" THEN 1 ELSE 3

\* C31: in an environment that has the secret, an open socket whose open
\* handler has run has sent its handshake request exactly once, a socket sends it
\* at most once and as its first message, never before it opened; every
\* request carries the signature of (client id, meeting, stream, secret), so
\* both requests of a session carry the same one; the media request declares
\* media type 8 (transcript) and no payload encryption
C31_HandshakeOnceAndFirst ==
    secretSet
    => \A s \in DOMAIN sockets :
          /\ CountType(sockets[s].sent, HandshakeType(sockets[s])) <= 1
          /\ sockets[s].sent # <<>>
             => sockets[s].sent[1].msg_type = HandshakeType(sockets[s])
          /\ (sockets[s].state = "open" /\ s \notin signing)
             => CountType(sockets[s].sent, HandshakeType(sockets[s])) = 1
          /\ sockets[s].state = "connecting" => sockets[s].sent = <<>>
          /\ \A n \in DOMAIN sockets[s].sent :
                sockets[s].sent[n].msg_type = HandshakeType(sockets[s])
                => /\ sockets[s].sent[n].signature =
                         <<"hmac-sha256", "client-secret",
                           <<"client-id", sockets[s].meeting, sockets[s].stream>>>>
                   /\ sockets[s].kind = "media"
                      => /\ sockets[s].sent[n].media_type = 8
                         /\ sockets[s].sent[n].payload_encryption = FALSE

\* C32: in an environment without the secret no socket sends a handshake
\* request, and the process runs on
C32_NoSecretNoHandshake ==
    ~secretSet
    => /\ alive
       /\ \A s \in DOMAIN sockets :
             CountType(sockets[s].sent, HandshakeType(sockets[s])) = 0

(* --------------------------- relay and fan-out ------------------------- *)
\* C33: when bc.onmessage handles the envelope of another instance, every
\* SSE client of the handling instance whose stream accepts data is sent the
\* transcript, whether or not the send to another client of the Set threw
C33_RelayIsolatesFailures ==
    [][\A j \in Instances :
          (RelayStep(j) /\ Head(inbox[j]).origin # j)
          => \A c \in Range(sseClients[j]) :
                ~clients[c].broken
                => clients'[c] =
                      Got(c, [event |-> "transcript",
                              data |-> Head(inbox[j]).payload])]_vars

\* the envelopes waiting on the bus
Envelopes == UNION {Range(inbox[j]) : j \in Instances}

FanOutStep(x) ==
    \/ PublishStep(x)
    \/ RelayStep(x) /\ Head(inbox[x]).origin # x

\* what the fan-out of the step sends
FanOutItem(x) ==
    IF PublishStep(x)
    THEN TranscriptItem(published'[x][Len(published'[x])])
    ELSE [event |-> "transcript", data |-> Head(inbox[x]).payload]

\* C35: a fan-out runs to its end with the Set as it was when it started: no
\* client joins or leaves during it, a client that is not in the Set (it
\* left before, or belongs to another instance) is sent nothing, a member is
\* sent the item at most once, and a member whose stream accepts data is
\* sent it, unless in a relay the send to a member before it threw
C35_FanOutOverStableSet ==
    [][\A x \in Instances :
          FanOutStep(x)
          => /\ sseClients' = sseClients
             /\ DOMAIN clients' = DOMAIN clients
             /\ \A c \in DOMAIN clients \ Range(sseClients[x]) :
                   clients'[c] = clients[c]
             /\ \A n \in DOMAIN sseClients[x] :
                   LET c == sseClients[x][n]
                   IN  /\ clients'[c] \in {clients[c], Got(c, FanOutItem(x))}
                       /\ clients[c].broken => clients'[c] = clients[c]
                       /\ (/\ ~clients[c].broken
                           /\ PublishStep(x)
                              \/ \A k \in 1 .. n : ~clients[sseClients[x][k]].broken)
                          => clients'[c] = Got(c, FanOutItem(x))]_vars

\* after one client of A had left the Set, a transcript was published and
\* the client that had stayed was sent it
C35_Witness ==
    /\ Len(published["A"]) = 1
    /\ \E c \in DOMAIN clients :
          /\ clients[c].inst = "A"
          /\ c \notin Range(sseClients["A"])
          /\ clients[c].received = <<>>
    /\ \E c \in Range(sseClients["A"]) :
          clients[c].received = <<SseConnected, TranscriptItem(published["A"][1])>>

(* ------------------------- stale close events -------------------------- *)
\* the registry slot of the kind of socket so
SlotOf(entry, so) == IF so.kind = "signaling" THEN entry.signaling ELSE entry.media

\* C36: the close event of a socket leaves the slot of its kind as it is
\* when the slot holds the handle of another, newer socket of the meeting
C36_CloseLeavesNewerHandle ==
    [][\A s \in DOMAIN sockets :
          (/\ sockets[s].state # "closed"
           /\ sockets'[s].state = "closed"
           /\ activeConnections[sockets[s].inst][sockets[s].meeting].present
           /\ SlotOf(activeConnections[sockets[s].inst][sockets[s].meeting],
                     sockets[s]) \notin {0, s})
          => SlotOf(activeConnections'[sockets[s].inst][sockets[s].meeting],
                    sockets[s])
             = SlotOf(activeConnections[sockets[s].inst][sockets[s].meeting],
                      sockets[s])]_vars

(* --------------------------- polling cursors --------------------------- *)
\* the step is a poll that follows an earlier poll of the same instance
NextPollStep == polled.called /\ polled' # polled /\ polled'.inst = polled.inst

\* C37: a poll whose since is the timestamp the previous poll returned
\* answers with every event that a media channel put in the buffer between
\* the two polls
C37_CursorSkipsNothing ==
    [][(NextPollStep /\ polled'.query = [given |-> TRUE, n |-> polled.timestamp])
       => \A n \in 1 .. (Len(polled'.buffer) - Len(polled.buffer)) :
             polled'.buffer[n].user_id # "groq-ai"
                => polled'.buffer[n] \in Range(polled'.transcripts)]_vars

\* C38: what a poll returns is a function of the buffer and of its since
\* parameter: a poll with the same parameter as the poll before it, made
\* when the buffer is the same, returns the same events
C38_PollDependsOnBufferAndSince ==
    [][(/\ NextPollStep
        /\ polled'.query = polled.query
        /\ polled'.buffer = polled.buffer)
       => polled'.transcripts = polled.transcripts]_vars

(* ------------------------ transcripts without text --------------------- *)
EmptySockets == 2
EmptyFrames == 4
EmptyClients == 2

\* a transcript-data frame that has no content object
TranscriptNoContent == Frame(TRUE, 17, 0, "", 0, "", "", "")

\* frames of the scenario: the media socket receives transcripts with a text,
\* with an empty text and without content
EmptyFrameSet(kind) ==
    IF kind = "signaling"
    THEN {SignalingHandshakeResp(0, u) : u \in MediaUrls}
    ELSE {TranscriptData("u1", "Alice", "hello", framesIn + 1),
          TranscriptData("u1", "Alice", "", framesIn + 1),
          TranscriptNoContent}

NextEmpty ==
    \/ SessionStart("A", "m1", "st1", SigUrls, EmptySockets) /\ NoHistory
    \/ \E s \in DOMAIN sockets : OnOpen(s) /\ NoHistory
    \/ \E s \in DOMAIN sockets :
          \E f \in EmptyFrameSet(sockets[s].kind) :
             /\ ReceiveText(s, f, EmptyFrames, EmptySockets)
             /\ inbox'["A"] = inbox["A"]
             /\ NoHistory
    \/ Subscribe("A", EmptyClients) /\ NoHistory
    \/ \E c \in DOMAIN clients : SinkBreak(c) /\ NoHistory

SpecEmpty == Init /\ [][NextEmpty]_vars

\* C39: the media handler, on a transcript-data frame whose content or text
\* is absent or empty, publishes nothing: the buffer, the subscribers and
\* what they received and the bus stay as they are, nothing is sent on a
\* socket and the media channel stays open
C39_EmptyTranscriptNotPublished ==
    [][(/\ framesIn' = framesIn + 1
        /\ sockets[lastHandled'.sock].kind = "media"
        /\ lastHandled'.frame.msg_type = 17
        /\ lastHandled'.frame.data = "")
       => /\ UNCHANGED bcastVars
          /\ sockets' = sockets
          /\ sockets'[lastHandled'.sock].state = "open"
          /\ activeConnections' = activeConnections]_vars

\* a transcript without text was handled after a transcript with a text had
\* reached a subscriber
C39_Witness ==
    /\ lastHandled.sock \in DOMAIN sockets
    /\ sockets[lastHandled.sock].kind = "media"
    /\ lastHandled.frame.msg_type = 17
    /\ lastHandled.frame.data = ""
    /\ Len(recentTranscripts["A"]) = 1
    /\ \E c \in DOMAIN clients : Len(clients[c].received) = 2

====
